---- MODULE Spec2Model ----
(***************************************************************************)
(* State-machine model of the CSV differencing utility of                  *)
(* cor_history_export (src/src/utils/helpers.py, extract_csv_differences)  *)
(* together with the text layer it runs on: the codecs it opens files      *)
(* with, universal-newline reading, csv.reader and csv.writer.             *)
(*                                                                         *)
(* Files are sequences of bytes (0..255); decoded text is a sequence of    *)
(* Unicode code points.                                                    *)
(***************************************************************************)
EXTENDS Integers, Sequences, FiniteSets, TLC

VARIABLES
    fs,             \* path -> file content (a byte sequence) or Absent
    outDirExists,   \* whether the parent directory of OutPath exists
    paths,          \* the three path arguments the caller passes
    csvRejectsNul,  \* the interpreter's csv.reader raises on a NUL character (CPython < 3.11)
    last,           \* the most recent extract_csv_differences call: what it
                    \* returned, the files it found, and whether the call
                    \* before it had the same arguments (repeated)
    disk,           \* the directories the locate, wait and archive operations work on
    clock,          \* the wall clock, in seconds
    proc            \* the locate, wait or archive call in progress or last returned

diffVars == <<fs, outDirExists, paths, csvRejectsNul, last>>

hostVars == <<disk, clock, proc>>

vars == <<fs, outDirExists, paths, csvRejectsNul, last, disk, clock, proc>>

(***************************************************************************)
(* Characters and small helpers                                            *)
(***************************************************************************)
Ch == [eol |-> -1, nul |-> 0, lf |-> 10, cr |-> 13, quote |-> 34, comma |-> 44,
       a |-> 97, h |-> 104, plusminus |-> 177,
       kanjiTa |-> 30000,       \* U+7530
       hwTsu |-> 65410,         \* U+FF82 halfwidth katakana TU
       hwA |-> 65393,           \* U+FF71 halfwidth katakana A
       repl |-> 65533]          \* U+FFFD, the replacement character

Range(s) == {s[i] : i \in 1..Len(s)}

Take(s, n) == SubSeq(s, 1, IF n < Len(s) THEN n ELSE Len(s))

RECURSIVE Pick(_, _, _)
\* the elements of list whose index is in idx, in the order of list
Pick(list, idx, i) ==
    IF i > Len(list) THEN <<>>
    ELSE (IF i \in idx THEN <<list[i]>> ELSE <<>>) \o Pick(list, idx, i + 1)

RECURSIVE Flatten(_)
\* the concatenation of the sequences of ss
Flatten(ss) ==
    IF Len(ss) = 0 THEN <<>>
    ELSE IF Len(ss) = 1 THEN ss[1]
    ELSE LET m == Len(ss) \div 2
         IN Flatten(SubSeq(ss, 1, m)) \o Flatten(SubSeq(ss, m + 1, Len(ss)))

\* the end of the line that starts at position i: its line feed, or the end of s
LineEnd(s, i) ==
    IF \E j \in i..Len(s) : s[j] = Ch.lf
    THEN CHOOSE j \in i..Len(s) : s[j] = Ch.lf /\ \A k \in i..(j - 1) : s[k] # Ch.lf
    ELSE Len(s)

RECURSIVE SplitLines(_, _)
\* the lines of s from position i, each with its line feed (bytes or characters)
SplitLines(s, i) ==
    IF i > Len(s) THEN <<>>
    ELSE <<SubSeq(s, i, LineEnd(s, i))>> \o SplitLines(s, LineEnd(s, i) + 1)

RECURSIVE FilterSeq(_, _)
\* the subsequence of s whose elements are not in the set excluded
FilterSeq(s, excluded) ==
    IF s = <<>> THEN <<>>
    ELSE IF Head(s) \in excluded THEN FilterSeq(Tail(s), excluded)
         ELSE <<Head(s)>> \o FilterSeq(Tail(s), excluded)

(***************************************************************************)
(* UTF-8 (codec 'utf-8').  Utf8SeqLen is the length a lead byte announces  *)
(* (0: not a lead byte); Utf8TrailOk the range of the k-th following byte. *)
(* A line feed is never inside a multi-byte sequence, in UTF-8 as in       *)
(* Shift-JIS, so the decoders scan a file one line at a time.              *)
(***************************************************************************)
Utf8SeqLen(b) ==
    IF b < 128 THEN 1
    ELSE IF b >= 194 /\ b <= 223 THEN 2
    ELSE IF b >= 224 /\ b <= 239 THEN 3
    ELSE IF b >= 240 /\ b <= 244 THEN 4
    ELSE 0

Utf8TrailOk(lead, k, b) ==
    IF k = 1 /\ lead = 224 THEN b >= 160 /\ b <= 191
    ELSE IF k = 1 /\ lead = 237 THEN b >= 128 /\ b <= 159
    ELSE IF k = 1 /\ lead = 240 THEN b >= 144 /\ b <= 191
    ELSE IF k = 1 /\ lead = 244 THEN b >= 128 /\ b <= 143
    ELSE b >= 128 /\ b <= 191

RECURSIVE Utf8GoodTrail(_, _, _, _)
\* how many of the bytes after position i continue the sequence led by bytes[i]
Utf8GoodTrail(bytes, i, k, n) ==
    IF k >= n \/ i + k > Len(bytes) THEN k - 1
    ELSE IF Utf8TrailOk(bytes[i], k, bytes[i + k])
         THEN Utf8GoodTrail(bytes, i, k + 1, n)
         ELSE k - 1

Utf8CodePoint(bytes, i, n) ==
    IF n = 1 THEN bytes[i]
    ELSE IF n = 2 THEN (bytes[i] % 32) * 64 + (bytes[i + 1] % 64)
    ELSE IF n = 3 THEN (bytes[i] % 16) * 4096 + (bytes[i + 1] % 64) * 64
                       + (bytes[i + 2] % 64)
    ELSE (bytes[i] % 8) * 262144 + (bytes[i + 1] % 64) * 4096
         + (bytes[i + 2] % 64) * 64 + (bytes[i + 3] % 64)

RECURSIVE Utf8Scan(_, _, _, _)
\* Decodes bytes from position i.  Result: text (undecodable parts replaced
\* by U+FFFD, one per maximal subpart), bad (an invalid sequence was met),
\* pending (the input ends inside a sequence that is valid so far).
Utf8Scan(bytes, i, acc, bad) ==
    IF i > Len(bytes) THEN [text |-> acc, bad |-> bad, pending |-> FALSE]
    ELSE LET n == Utf8SeqLen(bytes[i])
             good == IF n = 0 THEN 0 ELSE Utf8GoodTrail(bytes, i, 1, n)
         IN IF n = 0
            THEN Utf8Scan(bytes, i + 1, Append(acc, Ch.repl), TRUE)
            ELSE IF good = n - 1
            THEN Utf8Scan(bytes, i + n, Append(acc, Utf8CodePoint(bytes, i, n)), bad)
            ELSE IF i + good = Len(bytes)
            THEN [text |-> Append(acc, Ch.repl), bad |-> bad, pending |-> TRUE]
            ELSE Utf8Scan(bytes, i + good + 1, Append(acc, Ch.repl), TRUE)

Utf8ScanLines(lines) == [k \in 1..Len(lines) |-> Utf8Scan(lines[k], 1, <<>>, FALSE)]

\* the results d of the lines as one: the input can only end inside a
\* sequence in its last line
Utf8Join(d) ==
    [text |-> Flatten([k \in 1..Len(d) |-> d[k].text]),
     bad |-> \E k \in 1..Len(d) : d[k].bad,
     pending |-> Len(d) > 0 /\ d[Len(d)].pending]

\* the UTF-8 decoder over all the lines of bytes
Utf8Decode(bytes) == Utf8Join(Utf8ScanLines(SplitLines(bytes, 1)))

\* bytes.decode('utf-8', errors='replace') of a whole file
DecodeUtf8Replace(bytes) == Utf8Decode(bytes).text

\* str.encode('utf-8') of one code point
Utf8EncodeChar(c) ==
    IF c < 128 THEN <<c>>
    ELSE IF c < 2048 THEN <<192 + (c \div 64), 128 + (c % 64)>>
    ELSE IF c < 65536
         THEN <<224 + (c \div 4096), 128 + ((c \div 64) % 64), 128 + (c % 64)>>
    ELSE <<240 + (c \div 262144), 128 + ((c \div 4096) % 64),
           128 + ((c \div 64) % 64), 128 + (c % 64)>>

EncodeUtf8(text) == Flatten([i \in 1..Len(text) |-> Utf8EncodeChar(text[i])])

(***************************************************************************)
(* Shift-JIS (codec 'shift_jis', errors='replace').  A byte below 0x80 is  *)
(* itself, 0xA1..0xDF is a halfwidth katakana, a lead byte with its trail  *)
(* byte is looked up in JIS X 0208.  Only the pair 0x93 0x63 (U+7530) of   *)
(* that table is modelled, the one pair the modelled files contain; any    *)
(* other lead byte is undecodable: U+FFFD, and decoding resumes at the     *)
(* next byte.                                                              *)
(***************************************************************************)
SjisPairKnown(b1, b2) == b1 = 147 /\ b2 = 99

SjisPairChar(b1, b2) == Ch.kanjiTa

RECURSIVE SjisScan(_, _, _)
SjisScan(bytes, i, acc) ==
    IF i > Len(bytes) THEN acc
    ELSE LET b == bytes[i]
         IN IF b < 128 THEN SjisScan(bytes, i + 1, Append(acc, b))
            ELSE IF b >= 161 /\ b <= 223
            THEN SjisScan(bytes, i + 1, Append(acc, 65216 + b))
            ELSE IF i < Len(bytes) /\ SjisPairKnown(b, bytes[i + 1])
            THEN SjisScan(bytes, i + 2, Append(acc, SjisPairChar(b, bytes[i + 1])))
            ELSE SjisScan(bytes, i + 1, Append(acc, Ch.repl))

SjisScanLines(lines) == Flatten([k \in 1..Len(lines) |-> SjisScan(lines[k], 1, <<>>)])

\* bytes.decode('shift_jis', errors='replace') of a whole file
DecodeShiftJisReplace(bytes) == SjisScanLines(SplitLines(bytes, 1))

(***************************************************************************)
(* open(path, 'r', encoding=..., errors='replace') and reading it to the   *)
(* end.  The incremental 'utf-16' decoder that open() uses needs a byte    *)
(* order mark: once two bytes are consumed without one it raises           *)
(* UnicodeError, whatever the error handler.  A file that passed the       *)
(* UTF-8 probe cannot start with a mark (0xFF and 0xFE are not UTF-8), so  *)
(* the marked case is not modelled.                                        *)
(***************************************************************************)
RECURSIVE TranslateLine(_, _, _)
TranslateLine(text, i, acc) ==
    IF i > Len(text) THEN acc
    ELSE IF text[i] = Ch.cr
         THEN IF i < Len(text) /\ text[i + 1] = Ch.lf
              THEN TranslateLine(text, i + 2, Append(acc, Ch.lf))
              ELSE TranslateLine(text, i + 1, Append(acc, Ch.lf))
         ELSE TranslateLine(text, i + 1, Append(acc, text[i]))

TranslateLines(lines) ==
    Flatten([k \in 1..Len(lines) |-> TranslateLine(lines[k], 1, <<>>)])

\* newline=None: "\r\n" and "\r" are read as "\n"
TranslateNewlines(text) == TranslateLines(SplitLines(text, 1))

ReadText(bytes, encoding) ==
    IF encoding = "utf-16"
    THEN IF Len(bytes) >= 2
         THEN [raised |-> TRUE, text |-> <<>>]
         ELSE [raised |-> FALSE,
               text |-> IF Len(bytes) = 1 THEN <<Ch.repl>> ELSE <<>>]
    ELSE [raised |-> FALSE,
          text |-> TranslateNewlines(
                       IF encoding = "shift_jis" THEN DecodeShiftJisReplace(bytes)
                       ELSE DecodeUtf8Replace(bytes))]

(***************************************************************************)
(* The encoding probe: open(path, 'r', encoding='utf-8') and f.read(1024). *)
(* The text layer reads the file in chunks of Io.chunk bytes and decodes   *)
(* each chunk whole (strict), until Io.probe characters are decoded or the *)
(* file ends; a sequence cut by the end of a chunk is kept for the next    *)
(* one and is an error only at the end of the file.                        *)
(***************************************************************************)
Io == [chunk |-> 8192, probe |-> 1024]

RECURSIVE ProbeRead(_, _)
\* chars: what the first k chunks decode to; pending: they end inside a
\* sequence
ProbeChars(bytes, k, pending, chars) ==
    IF Len(chars) >= Io.probe
    THEN [error |-> FALSE, content |-> Take(chars, Io.probe)]
    ELSE IF k * Io.chunk >= Len(bytes)
    THEN [error |-> pending, content |-> chars]
    ELSE ProbeRead(bytes, k + 1)

\* d: the decoder's result for the first k chunks
ProbeChunks(bytes, k, d) ==
    IF d.bad THEN [error |-> TRUE, content |-> <<>>]
    ELSE ProbeChars(bytes, k, d.pending,
                    TranslateNewlines(IF d.pending THEN Take(d.text, Len(d.text) - 1)
                                      ELSE d.text))

\* f.read(Io.probe) with k chunks read: error when UnicodeDecodeError is raised
ProbeRead(bytes, k) == ProbeChunks(bytes, k, Utf8Decode(Take(bytes, k * Io.chunk)))

\* the encoding after the probe p
ProbedEncoding(start, p) ==
    IF p.error THEN "shift_jis"
    ELSE IF Ch.nul \in Range(p.content) THEN "utf-16"
    ELSE start

\* helpers.py 402-412 and 437-446: encoding starts as start, becomes
\* 'utf-16' when the probe holds a NUL, 'shift_jis' when the probe raises
\* UnicodeDecodeError
ProbeEncoding(start, bytes) == ProbedEncoding(start, ProbeRead(bytes, 1))

\* 402: the value of the variable encoding when the probe of the reference
\* file begins
ReferenceStartEncoding == "utf-8"

\* 437 left out: the probe of the new file starts from the encoding
\* resolved for the reference file
NewStartEncodingKept(referenceEncoding) == referenceEncoding

\* 437: encoding = 'utf-8' again
NewStartEncoding(referenceEncoding) == "utf-8"

(***************************************************************************)
(* csv.reader (default dialect: delimiter ',', quotechar '"', doublequote, *)
(* not strict), the parser of Modules/_csv.c.  The reader takes the text   *)
(* line by line; Eol is the end-of-line event the parser is given after    *)
(* the characters of each line.                                            *)
(***************************************************************************)
Eol == Ch.eol

IsBreak(c) == c = Ch.lf \/ c = Ch.cr \/ c = Eol

AfterBreak(c) == IF c = Eol THEN "START_RECORD" ELSE "EAT_CRNL"

\* parse_process_char: st is [mode, field, fields]
CsvChar(st, c) ==
    LET mode == IF st.mode = "START_RECORD" /\ c # Eol /\ ~IsBreak(c)
                THEN "START_FIELD" ELSE st.mode
        saved == [mode |-> AfterBreak(c), field |-> <<>>,
                  fields |-> Append(st.fields, st.field)]
    IN CASE mode = "START_RECORD" ->
              IF c = Eol THEN st ELSE [st EXCEPT !.mode = "EAT_CRNL"]
         [] mode = "START_FIELD" ->
              IF IsBreak(c) THEN saved
              ELSE IF c = Ch.quote THEN [st EXCEPT !.mode = "IN_QUOTED_FIELD"]
              ELSE IF c = Ch.comma
              THEN [saved EXCEPT !.mode = "START_FIELD"]
              ELSE [st EXCEPT !.mode = "IN_FIELD", !.field = Append(st.field, c)]
         [] mode = "IN_FIELD" ->
              IF IsBreak(c) THEN saved
              ELSE IF c = Ch.comma THEN [saved EXCEPT !.mode = "START_FIELD"]
              ELSE [st EXCEPT !.field = Append(st.field, c)]
         [] mode = "IN_QUOTED_FIELD" ->
              IF c = Eol THEN st
              ELSE IF c = Ch.quote THEN [st EXCEPT !.mode = "QUOTE_IN_QUOTED_FIELD"]
              ELSE [st EXCEPT !.field = Append(st.field, c)]
         [] mode = "QUOTE_IN_QUOTED_FIELD" ->
              IF c = Ch.quote
              THEN [st EXCEPT !.mode = "IN_QUOTED_FIELD", !.field = Append(st.field, c)]
              ELSE IF c = Ch.comma THEN [saved EXCEPT !.mode = "START_FIELD"]
              ELSE IF IsBreak(c) THEN saved
              ELSE [st EXCEPT !.mode = "IN_FIELD", !.field = Append(st.field, c)]
         [] OTHER ->   \* EAT_CRNL
              IF c = Eol THEN [st EXCEPT !.mode = "START_RECORD"] ELSE st

CsvStart == [mode |-> "START_RECORD", field |-> <<>>, fields |-> <<>>]

RECURSIVE CsvLine(_, _, _)
\* the characters of one line from position i, then the end of the line
CsvLine(st, line, i) ==
    IF i > Len(line) THEN CsvChar(st, Eol)
    ELSE CsvLine(CsvChar(st, line[i]), line, i + 1)

RECURSIVE CsvLines(_, _, _, _)
\* Reader_iternext, called until the lines are exhausted: after a line the
\* record is complete when the parser is back at START_RECORD, otherwise
\* (inside a quoted field) it goes on with the next line; when the lines end
\* inside a record, what was read of it is the last record
CsvLines(lines, k, st, recs) ==
    IF k > Len(lines)
    THEN IF st.mode = "IN_QUOTED_FIELD" \/ st.field # <<>>
         THEN Append(recs, Append(st.fields, st.field))
         ELSE recs
    ELSE LET e == CsvLine(st, lines[k], 1)
         IN IF e.mode = "START_RECORD"
            THEN CsvLines(lines, k + 1, CsvStart, Append(recs, e.fields))
            ELSE CsvLines(lines, k + 1, e, recs)

\* list(csv.reader(f)) for a file f holding text
CsvReader(text) == CsvLines(SplitLines(text, 1), 1, CsvStart, <<>>)

(***************************************************************************)
(* csv.writer (QUOTE_MINIMAL, lineterminator "\r\n"): a field is quoted    *)
(* when it holds the delimiter, the quote character (doubled) or a line    *)
(* break, and when it is the empty only field of its row.                  *)
(***************************************************************************)
DoubleQuotes(field) ==
    Flatten([i \in 1..Len(field) |->
                IF field[i] = Ch.quote THEN <<Ch.quote, Ch.quote>> ELSE <<field[i]>>])

NeedsQuoting(field) ==
    \E c \in Range(field) : c \in {Ch.comma, Ch.quote, Ch.cr, Ch.lf}

WriteField(field, alone) ==
    IF NeedsQuoting(field) \/ (alone /\ field = <<>>)
    THEN <<Ch.quote>> \o DoubleQuotes(field) \o <<Ch.quote>>
    ELSE field

RECURSIVE JoinFields(_, _)
JoinFields(row, alone) ==
    IF row = <<>> THEN <<>>
    ELSE WriteField(Head(row), alone)
         \o (IF Len(row) > 1 THEN <<Ch.comma>> ELSE <<>>)
         \o JoinFields(Tail(row), alone)

\* writer.writerow(row)
WriteRow(row) == JoinFields(row, Len(row) = 1) \o <<Ch.cr, Ch.lf>>

\* writer.writerows(rows)
WriteRows(rows) == Flatten([i \in 1..Len(rows) |-> WriteRow(rows[i])])

(***************************************************************************)
(* The filesystem.  Three paths are modelled; OutPath lies in a directory  *)
(* of its own, the other two in the working directory, which exists.       *)
(***************************************************************************)
NewPath == "new.csv"

RefPath == "ref.csv"

OutPath == "out/diff.csv"

Paths == {NewPath, RefPath, OutPath}

Absent == [exists |-> FALSE, bytes |-> <<>>]

File(bytes) == [exists |-> TRUE, bytes |-> bytes]

\* os.path.dirname(path) is non-empty
HasDirectory(path) == path = OutPath

\* the directory a file of that path is created in exists
ParentExists(path, dirOk) == ~HasDirectory(path) \/ dirOk

(***************************************************************************)
(* extract_csv_differences, helpers.py 371-525                             *)
(***************************************************************************)
\* header = next(reader) under try/except StopIteration (420-424, 454-458)
\* next(reader, []): no StopIteration, an empty header for an empty file
NextHeaderDefault(recs) ==
    [stop |-> FALSE,
     header |-> IF recs = <<>> THEN <<>> ELSE Head(recs),
     rest |-> IF recs = <<>> THEN <<>> ELSE Tail(recs)]

\* header is the first record and rest what the reader still yields; stop
\* when there is no record
NextHeader(recs) ==
    [stop |-> recs = <<>>,
     header |-> IF recs = <<>> THEN <<>> ELSE Head(recs),
     rest |-> IF recs = <<>> THEN <<>> ELSE Tail(recs)]

Raised == [status |-> "raised", header |-> <<>>, rows |-> <<>>]

\* no return on StopIteration: an empty file is read as a file with an
\* empty header and no rows
HeaderAndRowsNoStop(first) ==
    [status |-> "ok", header |-> first.header, rows |-> first.rest]

\* 420-428, 454-471: the return on StopIteration, else the header and the
\* rows the loop takes from the reader
HeaderAndRows(first) ==
    IF first.stop THEN [status |-> "empty", header |-> <<>>, rows |-> <<>>]
    ELSE [status |-> "ok", header |-> first.header, rows |-> first.rest]

\* csv.reader over the text t of an opened file
ReadRecords(t, rejectsNul) ==
    IF t.raised \/ (rejectsNul /\ Ch.nul \in Range(t.text)) THEN Raised
    ELSE HeaderAndRows(NextHeader(CsvReader(t.text)))

\* open(path, 'r', encoding=encoding, errors='replace'), csv.reader, the
\* header and every row (417-428, 451-471).  status is "raised" when an
\* exception other than the header's StopIteration escapes the block: the
\* file cannot be opened, the decoder raises, or csv.reader meets a NUL it
\* does not accept.
ReadCsv(file, encoding, rejectsNul) ==
    IF ~file.exists THEN Raised
    ELSE ReadRecords(ReadText(file.bytes, encoding), rejectsNul)

\* a reference set that takes the header row in as well
ReferenceRecordsWithHeader(ref) == Range(ref.rows) \cup {ref.header}

\* 425-428: reference_records, the set of the rows that follow the header
ReferenceRecords(ref) == Range(ref.rows)

\* a filter that keeps only the first occurrence of a row
DiffRowsDedup(rows, reference_records) ==
    Pick(rows, {i \in 1..Len(rows) :
                   /\ rows[i] \notin reference_records
                   /\ \A j \in 1..(i - 1) : rows[j] # rows[i]}, 1)

\* 465-471: the rows of the new file whose tuple is not in reference_records
DiffRows(rows, reference_records) == FilterSeq(rows, reference_records)

\* writing the header of the reference file
OutputHeaderOfReference(new_header, reference_header) == reference_header

\* the header written to the output (502, 515)
OutputHeader(new_header, reference_header) == new_header

\* open(output_file_path, 'a', ...): the text is added to what the file held
WriteOutputAppend(old, text) == File(old.bytes \o EncodeUtf8(text))

\* open(output_file_path, 'w', encoding='utf-8', newline='') and what the
\* writer puts there: the file is truncated, then holds the text in UTF-8
WriteOutput(old, text) == File(EncodeUtf8(text))

\* an empty difference that leaves an empty file
HeaderOnlyNothing(header) == <<>>

\* 499-502: the header-only file of an empty difference
HeaderOnlyText(header) == WriteRow(header)

\* 513-516
DiffText(header, new_records) == WriteRow(header) \o WriteRows(new_records)

\* no check of the new file
NewFileNeverMissing(files, new_file_path) == FALSE

\* 384: the new file does not exist
NewFileMissing(files, new_file_path) == ~files[new_file_path].exists

\* a return of False that has opened the output for writing first
FailureAfterOpen(outcome, c, referenceEncoding, newEncoding) ==
    [result |-> FALSE, outcome |-> outcome,
     fs |-> [c.files EXCEPT ![c.output_file_path] = [exists |-> TRUE, bytes |-> <<>>]],
     outDirExists |-> c.dirOk \/ HasDirectory(c.output_file_path),
     referenceEncoding |-> referenceEncoding, newEncoding |-> newEncoding]

\* a return of False; nothing was written
Failure(outcome, c, referenceEncoding, newEncoding) ==
    [result |-> FALSE, outcome |-> outcome, fs |-> c.files, outDirExists |-> c.dirOk,
     referenceEncoding |-> referenceEncoding, newEncoding |-> newEncoding]

\* shutil.move in place of shutil.copy2: the new file is gone afterwards
CopyNewFileMove(c) ==
    IF \/ ~c.files[c.new_file_path].exists
       \/ c.new_file_path = c.output_file_path
       \/ ~ParentExists(c.output_file_path, c.dirOk)
    THEN [result |-> FALSE, outcome |-> "Error", fs |-> c.files,
          outDirExists |-> c.dirOk,
          referenceEncoding |-> "none", newEncoding |-> "none"]
    ELSE [result |-> TRUE, outcome |-> "Copied",
          fs |-> [c.files EXCEPT ![c.output_file_path] = c.files[c.new_file_path],
                                 ![c.new_file_path] = [exists |-> FALSE, bytes |-> <<>>]],
          outDirExists |-> c.dirOk,
          referenceEncoding |-> "none", newEncoding |-> "none"]

\* 388-395: shutil.copy2 raises FileNotFoundError for a missing source or a
\* missing destination directory, and SameFileError when source and
\* destination are one file
CopyNewFile(c) ==
    IF \/ ~c.files[c.new_file_path].exists
       \/ c.new_file_path = c.output_file_path
       \/ ~ParentExists(c.output_file_path, c.dirOk)
    THEN Failure("Error", c, "none", "none")
    ELSE [result |-> TRUE, outcome |-> "Copied",
          fs |-> [c.files EXCEPT ![c.output_file_path] = c.files[c.new_file_path]],
          outDirExists |-> c.dirOk,
          referenceEncoding |-> "none", newEncoding |-> "none"]

\* 477-519: os.makedirs of a missing directory, then the output is written,
\* the header alone when there is no new record
WriteDifferences(c, referenceEncoding, newEncoding, header, new_records) ==
    [result |-> TRUE,
     outcome |-> IF new_records = <<>> THEN "HeaderOnly" ELSE "Diff",
     fs |-> [c.files EXCEPT ![c.output_file_path] =
                WriteOutput(c.files[c.output_file_path],
                            IF new_records = <<>> THEN HeaderOnlyText(header)
                            ELSE DiffText(header, new_records))],
     outDirExists |-> c.dirOk \/ HasDirectory(c.output_file_path),
     referenceEncoding |-> referenceEncoding, newEncoding |-> newEncoding]

\* 451-471, with the new file read as new
AfterNewRead(c, referenceEncoding, newEncoding, ref, new) ==
    IF new.status = "raised" THEN Failure("Error", c, referenceEncoding, newEncoding)
    ELSE IF new.status = "empty"
    THEN Failure("EmptyInput", c, referenceEncoding, newEncoding)
    ELSE WriteDifferences(c, referenceEncoding, newEncoding,
                          OutputHeader(new.header, ref.header),
                          DiffRows(new.rows, ReferenceRecords(ref)))

\* 448-451, with the encoding of the new file resolved
AfterNewProbe(c, referenceEncoding, newEncoding, ref) ==
    AfterNewRead(c, referenceEncoding, newEncoding, ref,
                 ReadCsv(c.files[c.new_file_path], newEncoding, c.rejectsNul))

\* 417-446, with the reference file read as ref: reference_records is the
\* set of its rows
AfterReferenceRead(c, referenceEncoding, ref) ==
    IF ref.status = "raised" THEN Failure("Error", c, referenceEncoding, "none")
    ELSE IF ref.status = "empty"
    THEN Failure("EmptyReference", c, referenceEncoding, "none")
    ELSE AfterNewProbe(c, referenceEncoding,
                       ProbeEncoding(NewStartEncoding(referenceEncoding),
                                     c.files[c.new_file_path].bytes),
                       ref)

\* 414-417, with the encoding of the reference file resolved
AfterReferenceProbe(c, referenceEncoding) ==
    AfterReferenceRead(c, referenceEncoding,
                       ReadCsv(c.files[c.reference_file_path], referenceEncoding,
                               c.rejectsNul))

\* 383-412; c holds the arguments and the state the call runs in
Call(c) ==
    IF NewFileMissing(c.files, c.new_file_path)
    THEN Failure("InputMissing", c, "none", "none")
    ELSE IF ~c.files[c.reference_file_path].exists
    THEN CopyNewFile(c)
    ELSE AfterReferenceProbe(c, ProbeEncoding(ReferenceStartEncoding,
                                              c.files[c.reference_file_path].bytes))

\* The whole call.  result is the value returned; outcome names the return
\* statement reached ("Error": the except clause of 521-525).
ExtractCsvDifferences(new_file_path, reference_file_path, output_file_path, files, dirOk, rejectsNul) ==
    Call([new_file_path |-> new_file_path,
          reference_file_path |-> reference_file_path,
          output_file_path |-> output_file_path,
          files |-> files, dirOk |-> dirOk, rejectsNul |-> rejectsNul])

(***************************************************************************)
(* The files the model starts from: small CSV tables written out in UTF-8  *)
(* and in Shift-JIS, and a few files given byte by byte.                   *)
(***************************************************************************)
MaxRows == 2

FieldA == <<Ch.a>>

FieldKanji == <<Ch.kanjiTa>>

FieldKana == <<Ch.hwTsu, Ch.hwA>>

RowKanji == <<FieldA, FieldKanji>>

RowSwapped == <<FieldKanji, FieldA>>

RowKana == <<FieldKana>>

\* the data rows a new file is made of, up to MaxRows of them in any order
NewRows == {RowKanji, RowKana}

\* the data rows a reference file is made of: any of these, each once
RefRowList == <<RowKanji, RowSwapped, RowKana>>

NewHeader == << <<Ch.h>>, <<Ch.comma>> >>

RefHeaders == {NewHeader, <<FieldKana>>}

SeqsUpTo(S, n) == UNION {[1..k -> S] : k \in 0..n}

NewTables == {[header |-> NewHeader, rows |-> rs] : rs \in SeqsUpTo(NewRows, MaxRows)}

RefTables ==
    {[header |-> hd, rows |-> Pick(RefRowList, idx, 1)] :
        hd \in RefHeaders, idx \in SUBSET (1..Len(RefRowList))}

CsvText(table) == WriteRows(<<table.header>> \o table.rows)

\* str.encode('shift_jis') for the characters of the tables
SjisEncodeChar(c) ==
    IF c < 128 THEN <<c>>
    ELSE IF c = Ch.kanjiTa THEN <<147, 99>>
    ELSE <<c - 65216>>

EncodeShiftJis(text) == Flatten([i \in 1..Len(text) |-> SjisEncodeChar(text[i])])

Utf8Files(tables) == {EncodeUtf8(CsvText(t)) : t \in tables}

SjisFiles(tables) == {EncodeShiftJis(CsvText(t)) : t \in tables}

RawFiles ==
    { <<>>,                                     \* an empty file
      <<0>>,                                    \* one NUL byte
      <<104, 0, 10>>,                           \* valid UTF-8 holding a NUL
      <<104, 10, 147, 99, 0>>,                  \* Shift-JIS holding a NUL
      <<34, 104, 10, 34, 34, 34, 44, 97, 13, 97>> }  \* quotes, a lone CR, no final newline

NewFiles == {File(b) : b \in Utf8Files(NewTables) \cup SjisFiles(NewTables) \cup RawFiles}
                \cup {Absent}

RefFiles == {File(b) : b \in Utf8Files(RefTables) \cup SjisFiles(RefTables) \cup RawFiles}
                \cup {Absent}

OldOutput == File(<<Ch.a, Ch.lf>>)

HasNul(f) == Ch.nul \in Range(f.bytes)

\* the argument triples: distinct paths, and the output aliasing an input
PathTriples ==
    { <<NewPath, RefPath, OutPath>>, <<NewPath, RefPath, RefPath>>,
      <<NewPath, RefPath, NewPath>> }

NoCall ==
    [called |-> FALSE, result |-> FALSE, outcome |-> "none",
     referenceEncoding |-> "none", newEncoding |-> "none",
     newBefore |-> Absent, refBefore |-> Absent, outBefore |-> Absent,
     dirBefore |-> FALSE, repeated |-> FALSE, resultBefore |-> FALSE]

\* no directory is modelled and no locate, wait or archive call is made
HostIdle == disk = <<>> /\ clock = 0 /\ proc = [op |-> "none", status |-> "idle"]

Init ==
    /\ HostIdle
    /\ \E n \in NewFiles, r \in RefFiles, o \in {Absent, OldOutput} :
          fs = [p \in Paths |-> IF p = NewPath THEN n ELSE IF p = RefPath THEN r ELSE o]
    /\ outDirExists \in BOOLEAN
    /\ fs[OutPath].exists => outDirExists
    /\ paths \in PathTriples
    /\ paths[3] # OutPath => (~fs[OutPath].exists /\ ~outDirExists)
    /\ csvRejectsNul \in (IF HasNul(fs[NewPath]) \/ HasNul(fs[RefPath])
                          THEN BOOLEAN ELSE {FALSE})
    /\ last = NoCall

\* one call extract_csv_differences(paths[1], paths[2], paths[3])
Extract ==
    \E r \in {ExtractCsvDifferences(paths[1], paths[2], paths[3],
                                   fs, outDirExists, csvRejectsNul)} :
       /\ fs' = r.fs
       /\ outDirExists' = r.outDirExists
       /\ last' = [called |-> TRUE, result |-> r.result, outcome |-> r.outcome,
                   referenceEncoding |-> r.referenceEncoding,
                   newEncoding |-> r.newEncoding,
                   newBefore |-> fs[paths[1]], refBefore |-> fs[paths[2]],
                   outBefore |-> fs[paths[3]], dirBefore |-> outDirExists,
                   repeated |-> last.called, resultBefore |-> last.result]
       /\ UNCHANGED <<paths, csvRejectsNul>>
       /\ UNCHANGED hostVars

Next == Extract

\* no extract_csv_differences call is made
DiffIdle ==
    /\ fs = [p \in Paths |-> Absent]
    /\ outDirExists = FALSE
    /\ paths = <<NewPath, RefPath, OutPath>>
    /\ csvRejectsNul = FALSE
    /\ last = NoCall

Spec == Init /\ [][Next]_vars

(***************************************************************************)
(* Vocabulary of the properties                                            *)
(***************************************************************************)
\* the CsvSnapshot of a file: its header and rows as the diff reads them,
\* each file resolving its encoding on its own
CsvSnapshot(file) ==
    ReadCsv(file, ProbeEncoding("utf-8", file.bytes), csvRejectsNul)

NewSnapshot == CsvSnapshot(last.newBefore)

RefSnapshot == CsvSnapshot(last.refBefore)

OutputFile == fs[paths[3]]

\* the records of the output file, read as the UTF-8 CSV it is written as
OutputRecords ==
    CsvReader(TranslateNewlines(DecodeUtf8Replace(OutputFile.bytes)))

DistinctPaths == paths[3] # paths[1] /\ paths[3] # paths[2]

BothExisted == last.called /\ last.newBefore.exists /\ last.refBefore.exists

\* the call took the branch that compares two existing files, and read
\* both: new and ref are their snapshots
BothRead(new, ref) == BothExisted /\ new.status = "ok" /\ ref.status = "ok"

\* the positions of the rows that equal no row of refRows
KeptIndexes(rows, refRows) ==
    {i \in 1..Len(rows) : \A j \in 1..Len(refRows) : rows[i] # refRows[j]}

NthOf(K, k) == CHOOSE i \in K : Cardinality({j \in K : j < i}) = k - 1

\* out is rows without the rows of refRows: same order, every occurrence
IsStableDifference(out, rows, refRows) ==
    LET K == KeptIndexes(rows, refRows)
    IN /\ Len(out) = Cardinality(K)
       /\ \A k \in 1..Len(out) : out[k] = rows[NthOf(K, k)]

(***************************************************************************)
(* C1.  When the new file and the reference file both exist and are read,  *)
(* the call returns True and the data rows of the output are exactly the   *)
(* data rows of the new file that equal no data row of the reference file, *)
(* in their original order and with every occurrence kept.                 *)
(***************************************************************************)
C1_DiffRowsExact ==
    LET new == NewSnapshot
        ref == RefSnapshot
        out == OutputRecords
    IN BothRead(new, ref) =>
           /\ last.result
           /\ out # <<>>
           /\ IsStableDifference(Tail(out), new.rows, ref.rows)

\* a call that dropped the first data row, found in the reference file, and
\* kept the second, found in no row of it
C1_Witness ==
    /\ last.outcome = "Diff"
    /\ BothRead(NewSnapshot, RefSnapshot)
    /\ Len(NewSnapshot.rows) = 2
    /\ NewSnapshot.rows[1] \in Range(RefSnapshot.rows)
    /\ NewSnapshot.rows[2] \notin Range(RefSnapshot.rows)
    /\ Tail(OutputRecords) = <<NewSnapshot.rows[2]>>

(***************************************************************************)
(* C2.  After every successful call the header row of the output is the    *)
(* header row of the new file, whether or not the reference file has the   *)
(* same header (a copy holds the new file as it is).                       *)
(***************************************************************************)
C2_OutputHeaderIsNewHeader ==
    LET out == OutputRecords
    IN (last.called /\ last.result) =>
           IF last.outcome = "Copied"
           THEN OutputFile = last.newBefore
           ELSE out # <<>> /\ Head(out) = NewSnapshot.header

\* a successful diff of files whose headers differ
C2_Witness ==
    /\ last.called /\ last.result
    /\ BothRead(NewSnapshot, RefSnapshot)
    /\ NewSnapshot.header # RefSnapshot.header
    /\ Head(OutputRecords) = NewSnapshot.header

(***************************************************************************)
(* C3.  When the new file exists and the reference file does not, the call *)
(* returns True and the output file holds the bytes of the new file.       *)
(* (Stated for an output path that is neither input path.)                 *)
(***************************************************************************)
C3_MissingReferenceCopies ==
    (last.called /\ DistinctPaths /\ last.newBefore.exists /\ ~last.refBefore.exists) =>
        /\ last.result
        /\ OutputFile = last.newBefore

(***************************************************************************)
(* C4.  When both files are read and every data row of the new file is a   *)
(* data row of the reference file (also when the new file has no data row  *)
(* at all), the call returns True and the output holds exactly one row,    *)
(* the header of the new file.                                             *)
(***************************************************************************)
C4_EmptyDiffHeaderOnly ==
    LET new == NewSnapshot
        ref == RefSnapshot
    IN (BothRead(new, ref) /\ Range(new.rows) \subseteq Range(ref.rows)) =>
           /\ last.result
           /\ OutputRecords = <<new.header>>

\* a new file whose two data rows are all in the reference file
C4_Witness ==
    /\ last.outcome = "HeaderOnly"
    /\ BothRead(NewSnapshot, RefSnapshot)
    /\ Len(NewSnapshot.rows) = 2
    /\ OutputRecords = <<NewSnapshot.header>>

(***************************************************************************)
(* C5 as stated.  A call with the arguments of the call before it returns  *)
(* what that call returned and leaves the output file as that call left    *)
(* it.                                                                     *)
(***************************************************************************)
C5_IdempotentAnyPaths ==
    last.repeated =>
        /\ last.result = last.resultBefore
        /\ OutputFile = last.outBefore

(***************************************************************************)
(* C5 amended.  The same, for an output path that is neither the new path  *)
(* nor the reference path.                                                 *)
(***************************************************************************)
C5_IdempotentDistinctPaths ==
    (last.repeated /\ DistinctPaths) =>
        /\ last.result = last.resultBefore
        /\ OutputFile = last.outBefore

\* a second diff that wrote rows again
C5_Witness ==
    /\ last.repeated /\ DistinctPaths
    /\ last.outcome = "Diff" /\ last.resultBefore
    /\ OutputFile = last.outBefore

(***************************************************************************)
(* C6.  When the new file does not exist the call returns False at the     *)
(* check of the new file, whether or not the reference file exists.        *)
(***************************************************************************)
C6_MissingNewFails ==
    (last.called /\ ~last.newBefore.exists) =>
        /\ ~last.result
        /\ last.outcome = "InputMissing"

\* neither file exists: the new file's check comes first
C6_Witness ==
    /\ last.called /\ ~last.newBefore.exists /\ ~last.refBefore.exists
    /\ last.outcome = "InputMissing"

(***************************************************************************)
(* C7.  When both files exist and the reference file has no byte, the call *)
(* returns False as EmptyReference whatever the new file holds; a          *)
(* reference file with a header and no data row is no error: its set of    *)
(* rows is empty and every data row of the new file is output.             *)
(***************************************************************************)
C7_EmptyReferenceFails ==
    LET new == NewSnapshot
        ref == RefSnapshot
    IN /\ (BothExisted /\ last.refBefore.bytes = <<>>) =>
              (~last.result /\ last.outcome = "EmptyReference")
       /\ (BothRead(new, ref) /\ ref.rows = <<>>) =>
              (last.result /\ OutputRecords = <<new.header>> \o new.rows)

\* an empty reference file beside a new file with data rows
C7_Witness ==
    /\ BothExisted /\ last.refBefore.bytes = <<>>
    /\ NewSnapshot.status = "ok" /\ NewSnapshot.rows # <<>>
    /\ last.outcome = "EmptyReference"

(***************************************************************************)
(* C8.  When both files exist, the reference file is not empty and the new *)
(* file has no byte, the call returns False; it is the EmptyInput return   *)
(* whenever the reference file is read.                                    *)
(***************************************************************************)
C8_EmptyNewFails ==
    (BothExisted /\ last.refBefore.bytes # <<>> /\ last.newBefore.bytes = <<>>) =>
        /\ ~last.result
        /\ RefSnapshot.status = "ok" => last.outcome = "EmptyInput"

\* an empty new file beside a reference file with data rows
C8_Witness ==
    /\ BothExisted /\ last.newBefore.bytes = <<>>
    /\ RefSnapshot.status = "ok" /\ RefSnapshot.rows # <<>>
    /\ last.outcome = "EmptyInput"

(***************************************************************************)
(* C9.  When the reference file is a table written in Shift-JIS and the    *)
(* new file a table written in UTF-8, the call returns True and the output *)
(* holds the header of the new table and its rows that are not rows of the *)
(* reference table.                                                        *)
(***************************************************************************)
SjisEncoded == [t \in RefTables |-> EncodeShiftJis(CsvText(t))]

Utf8Encoded == [t \in NewTables |-> EncodeUtf8(CsvText(t))]

C9_EncodingRobust ==
    (BothExisted /\ DistinctPaths) =>
        \A tr \in RefTables, tn \in NewTables :
            (last.refBefore.bytes = SjisEncoded[tr] /\ last.newBefore.bytes = Utf8Encoded[tn]) =>
                /\ last.result
                /\ OutputRecords = <<tn.header>> \o FilterSeq(tn.rows, Range(tr.rows))

(***************************************************************************)
(* C10.  The encoding resolved for a file is decided by that file alone:   *)
(* Shift-JIS when its bytes are not UTF-8, else UTF-16 when they hold a    *)
(* NUL, else UTF-8; the reference file's is resolved whenever both files   *)
(* exist, the new file's whenever the reference file was read and was not  *)
(* empty.                                                                  *)
(***************************************************************************)
ThreeWay(bytes) ==
    IF EncodeUtf8(DecodeUtf8Replace(bytes)) # bytes THEN "shift_jis"
    ELSE IF Ch.nul \in Range(bytes) THEN "utf-16"
    ELSE "utf-8"

C10_EncodingThreeWay ==
    /\ last.referenceEncoding # "none" =>
           last.referenceEncoding = ThreeWay(last.refBefore.bytes)
    /\ last.newEncoding # "none" =>
           last.newEncoding = ThreeWay(last.newBefore.bytes)
    /\ BothExisted => last.referenceEncoding # "none"
    /\ (BothExisted /\ RefSnapshot.status = "ok") => last.newEncoding # "none"

\* one call that resolved Shift-JIS for the reference file and UTF-8 for the new file
C10_Witness ==
    /\ last.called
    /\ last.referenceEncoding = "shift_jis"
    /\ last.newEncoding = "utf-8"

(***************************************************************************)
(* C11.  After every successful call the bytes of the output file are      *)
(* well-formed UTF-8, in the copy branch as in the two diff branches.      *)
(***************************************************************************)
IsUtf8(bytes) == ~Utf8Decode(bytes).bad /\ ~Utf8Decode(bytes).pending

C11_OutputIsUtf8 ==
    (last.called /\ last.result /\ DistinctPaths) => IsUtf8(OutputFile.bytes)

(***************************************************************************)
(* C12.  A call whose output directory does not exist, and that returns    *)
(* True when the directory exists, creates the directory, writes the       *)
(* output file and returns True.                                           *)
(***************************************************************************)
\* the call returns True when the output directory exists and the paths
\* are distinct
SucceedsWithDirectory ==
    /\ last.newBefore.exists
    /\ ~last.refBefore.exists \/ BothRead(NewSnapshot, RefSnapshot)

C12_CreatesParentDirectory ==
    (last.called /\ paths[3] = OutPath /\ ~last.dirBefore /\ SucceedsWithDirectory) =>
        /\ last.result
        /\ outDirExists
        /\ OutputFile.exists

(***************************************************************************)
(* C13 as stated.  After any call the files at the new path and at the     *)
(* reference path hold what they held before the call.                     *)
(***************************************************************************)
C13_InputsUnchangedAnyPaths ==
    last.called =>
        /\ fs[paths[1]] = last.newBefore
        /\ fs[paths[2]] = last.refBefore

(***************************************************************************)
(* C13 amended.  The same, for an output path that is neither the new path *)
(* nor the reference path.                                                 *)
(***************************************************************************)
C13_InputsUnchangedDistinctPaths ==
    (last.called /\ DistinctPaths) =>
        /\ fs[paths[1]] = last.newBefore
        /\ fs[paths[2]] = last.refBefore

\* a copy to a distinct output path that left the new file in place
C13_Witness ==
    /\ last.called /\ DistinctPaths
    /\ last.outcome = "Copied"
    /\ last.newBefore.bytes # <<>>
    /\ fs[paths[1]] = last.newBefore
    /\ OutputFile = last.newBefore

(***************************************************************************)
(* Directories, for the locate, wait and archive operations.  disk maps a  *)
(* directory to [exists, files]; files is the set of its entries           *)
(* [name, isfile, mtime, size], one per name.  A name is a sequence of     *)
(* characters, a path a directory with a name, None the value None in the  *)
(* shape of a path.                                                        *)
(***************************************************************************)
None == [dir |-> "None", name |-> <<>>]

\* in place of a result: an exception leaves the function body
Raises == [dir |-> "Raises", name |-> <<>>]

Path(dir, name) == [dir |-> dir, name |-> name]

\* os.path.exists(directory)
DirExists(d, dir) == d[dir].exists

EntryOf(d, path) == CHOOSE e \in d[path.dir].files : e.name = path.name

\* os.path.getmtime(path)
GetMTime(d, path) == EntryOf(d, path).mtime

\* str.lower() for the characters of the modelled names
LowerChar(c) ==
    CASE c = "B" -> "b" [] c = "C" -> "c" [] c = "S" -> "s" [] c = "V" -> "v"
      [] OTHER -> c

StrLower(str) == [i \in 1..Len(str) |-> LowerChar(str[i])]

\* str.endswith(suffix)
EndsWith(str, suffix) ==
    /\ Len(str) >= Len(suffix)
    /\ SubSeq(str, Len(str) - Len(suffix) + 1, Len(str)) = suffix

\* max(candidates, key=os.path.getmtime): the first candidate of the
\* greatest modification time.  candidates is listed directory by directory
\* in the order rank gives; within a directory the order is os.listdir's or
\* glob's, which is arbitrary, so any greatest candidate of the first such
\* directory may be the one returned.
Latest(d, candidates, rank) ==
    {p \in candidates :
        \A q \in candidates :
            /\ GetMTime(d, q) <= GetMTime(d, p)
            /\ GetMTime(d, q) = GetMTime(d, p) => rank[q.dir] >= rank[p.dir]}

(***************************************************************************)
(* find_latest_file, helpers.py 25-45.  The pattern is "*" followed by     *)
(* suffix; fold: the platform's fnmatch ignores case (os.path.normcase).   *)
(***************************************************************************)
FnMatch(name, suffix, fold) ==
    /\ name # <<>> /\ name[1] # "."
    /\ IF fold THEN EndsWith(StrLower(name), StrLower(suffix))
       ELSE EndsWith(name, suffix)

\* glob.glob(os.path.join(directory, "*" + suffix))
Glob(d, directory, suffix, fold) ==
    {Path(directory, e.name) : e \in {x \in d[directory].files : FnMatch(x.name, suffix, fold)}}

OneDirectory == [dir \in {"configured", "home", "project"} |-> 1]

\* max() of no file raises ValueError
LatestUnguarded(d, files, rank) == IF files = {} THEN {Raises} ELSE Latest(d, files, rank)

\* 41-45: None without files, else the latest of them
LatestOrNone(d, files, rank) == IF files = {} THEN {None} ELSE Latest(d, files, rank)

FindLatestFile(d, directory, suffix, fold) ==
    IF ~DirExists(d, directory) THEN {None}
    ELSE LatestOrNone(d, Glob(d, directory, suffix, fold), OneDirectory)

(***************************************************************************)
(* find_latest_file_by_extension, helpers.py 527-591.  max_age_minutes is  *)
(* [none, minutes]: none when the argument is None.                        *)
(***************************************************************************)
NoAge == [none |-> TRUE, minutes |-> 0]

Age(n) == [none |-> FALSE, minutes |-> n]

\* 545-546: a dot is put before an extension that has none
WithDot(extension) ==
    IF extension # <<>> /\ extension[1] = "." THEN extension ELSE <<".">> \o extension

\* 550: time_limit_exists
TimeLimitExists(max_age_minutes) == ~max_age_minutes.none /\ max_age_minutes.minutes > 0

\* 553-554, 62-64: min_timestamp
MinTimestamp(current_time, minutes) == current_time - minutes * 60

\* 565-566: the test an entry of the directory passes to be a candidate
IsExtensionCandidate(e, extension, limited, min_timestamp) ==
    /\ e.isfile
    /\ EndsWith(StrLower(e.name), StrLower(extension))
    /\ ~limited \/ e.mtime >= min_timestamp

ExtensionCandidates(d, directory, extension, limited, min_timestamp) ==
    {Path(directory, e.name) :
        e \in {x \in d[directory].files :
                  IsExtensionCandidate(x, extension, limited, min_timestamp)}}

FindLatestFileByExtension(d, now, directory, extension, max_age_minutes) ==
    IF ~DirExists(d, directory) THEN {None}
    ELSE LatestOrNone(d,
             ExtensionCandidates(d, directory, WithDot(extension),
                                 TimeLimitExists(max_age_minutes),
                                 MinTimestamp(now, max_age_minutes.minutes)),
             OneDirectory)

(***************************************************************************)
(* find_latest_csv_in_downloads, helpers.py 47-189.  The search list is    *)
(* the configured directories (68-98), the user's download directories    *)
(* (100-124) and the project's downloads directory (126-129), one of each  *)
(* modelled, in this order; 131-135 keep those that exist.                 *)
(***************************************************************************)
SearchList == <<"configured", "home", "project">>

SearchRank == [dir \in {"configured", "home", "project"} |-> CHOOSE i \in 1..3 : SearchList[i] = dir]

\* only the first directory of the search list that exists
FirstDownloadDir(d) ==
    {dir \in {"configured", "home", "project"} :
        /\ DirExists(d, dir)
        /\ \A other \in {"configured", "home", "project"} : DirExists(d, other) => SearchRank[dir] <= SearchRank[other]}

\* 131-135: unique_download_dirs, as a set
UniqueDownloadDirs(d) == {dir \in {"configured", "home", "project"} : DirExists(d, dir)}

DotCsv == <<".", "c", "s", "v">>

\* 147-149
IsCsvCandidate(e, min_timestamp) ==
    /\ e.isfile
    /\ EndsWith(StrLower(e.name), DotCsv)
    /\ e.mtime >= min_timestamp

\* 139-155: csv_candidates
CsvCandidatesIn(d, dirs, min_timestamp) ==
    UNION {{Path(dir, e.name) : e \in {x \in d[dir].files : IsCsvCandidate(x, min_timestamp)}} :
              dir \in dirs}

\* one pass of the loop body up to the choice of the file (60-171): the
\* file found, or None
SearchCsvOnce(d, now, max_age_minutes) ==
    LatestOrNone(d,
        CsvCandidatesIn(d, UniqueDownloadDirs(d), MinTimestamp(now, max_age_minutes)),
        SearchRank)

(***************************************************************************)
(* The directories the locate operations are run on.  Times are seconds;   *)
(* the first search is made at Tm.start, a retry Tm.retry_interval later.  *)
(***************************************************************************)
Tm == [start |-> 300, old |-> 239, edge |-> 240, fresh |-> 299, retry_interval |-> 30]

MaxAgeMinutes == 2

MaxRetryCount == 2

NameA == <<"a", ".", "c", "s", "v">>

NameB == <<"B", ".", "C", "S", "V">>

NameText == <<"c", ".", "t", "x", "t">>

NameFolder == <<"d", ".", "c", "s", "v">>

NameDownload == <<"n", ".", "c", "s", "v">>

Entry(name, isfile, mtime, size) == [name |-> name, isfile |-> isfile, mtime |-> mtime, size |-> size]

MTimes == {Tm.old, Tm.edge, Tm.fresh}

\* a directory with these entries; without entries it may be missing
Directories(files) == {[exists |-> TRUE, files |-> files]} \cup (IF files = {} THEN {[exists |-> FALSE, files |-> {}]} ELSE {})

CsvChoices(name) == {{}} \cup {{Entry(name, TRUE, m, 1)} : m \in MTimes}

ConfiguredFiles == CsvChoices(NameA)

HomeFiles == {f \cup g : f \in CsvChoices(NameB), g \in {{}, {Entry(NameFolder, FALSE, Tm.fresh, 0)}}}

ProjectFiles == {f \cup g : f \in CsvChoices(NameA), g \in {{}, {Entry(NameText, TRUE, Tm.fresh, 1)}}}

LocateDisks ==
    {[dir \in {"configured", "home", "project"} |->
         CASE dir = "configured" -> c [] dir = "home" -> h [] OTHER -> p] :
        c \in UNION {Directories(f) : f \in ConfiguredFiles},
        h \in UNION {Directories(f) : f \in HomeFiles},
        p \in UNION {Directories(f) : f \in ProjectFiles}}

\* the external process removes the file at path
Remove(d, path) ==
    [d EXCEPT ![path.dir].files = {e \in @ : e.name # path.name}]

\* the external process leaves a finished file at path, modified at time now
Put(d, path, now, size) ==
    [d EXCEPT ![path.dir] = [exists |-> TRUE, files |-> {e \in @.files : e.name # path.name} \cup {Entry(path.name, TRUE, now, size)}]]

(***************************************************************************)
(* The locate calls.  proc is the call in progress or the last one made:   *)
(* its operation, arguments, status and result, with the time and the      *)
(* directories of the search that decided it.  A victim is a listed file   *)
(* the external process removes between the listing and the reading of its *)
(* modification time, which then raises FileNotFoundError.                 *)
(***************************************************************************)
Victims(listed) == {None} \cup listed

\* the call ends with result, or with the exception when result is Raises
Finished(p, result, now, d) == [p EXCEPT !.status = IF result = Raises THEN "raised" ELSE "returned", !.result = IF result = Raises THEN None ELSE result, !.time = now, !.seen = d]

\* 589-591: except Exception returns None
Caught(result) == IF result = Raises THEN None ELSE result

\* find_latest_file(directory, "*" + suffix), 25-45: nothing catches
FindLatestFileCall(directory, suffix, fold) ==
    /\ proc.status = "idle"
    /\ \E victim \in Victims(IF DirExists(disk, directory) THEN Glob(disk, directory, suffix, fold) ELSE {}) :
        \E p \in {[op |-> "find_latest_file", status |-> "running", result |-> None, time |-> clock, seen |-> disk, directory |-> directory, suffix |-> suffix, fold |-> fold]} :
            /\ \E r \in (IF victim = None THEN FindLatestFile(disk, directory, suffix, fold) ELSE {Raises}) : proc' = Finished(p, r, clock, disk)
            /\ disk' = IF victim = None THEN disk ELSE Remove(disk, victim)
    /\ UNCHANGED clock
    /\ UNCHANGED diffVars

\* the files find_latest_file_by_extension reads the modification time of
ExtensionListed(d, directory, extension) ==
    IF DirExists(d, directory) THEN ExtensionCandidates(d, directory, WithDot(extension), FALSE, 0) ELSE {}

\* find_latest_file_by_extension, 539-591: the except clause returns None
FindLatestFileByExtensionCall(directory, extension, max_age_minutes) ==
    /\ proc.status = "idle"
    /\ \E victim \in Victims(ExtensionListed(disk, directory, extension)) :
        \E p \in {[op |-> "find_latest_file_by_extension", status |-> "running", result |-> None, time |-> clock, seen |-> disk, directory |-> directory, extension |-> extension, max_age_minutes |-> max_age_minutes]} :
            /\ \E r \in (IF victim = None THEN FindLatestFileByExtension(disk, clock, directory, extension, max_age_minutes) ELSE {Raises}) : proc' = Finished(p, Caught(r), clock, disk)
            /\ disk' = IF victim = None THEN disk ELSE Remove(disk, victim)
    /\ UNCHANGED clock
    /\ UNCHANGED diffVars

\* find_latest_csv_in_downloads is called; with retry_count = 0 the loop has
\* no pass and line 189 returns None
FindLatestCsvStart(max_age_minutes, retry_count, retry_interval) ==
    /\ proc.status = "idle"
    /\ proc' = [op |-> "find_latest_csv_in_downloads", status |-> IF retry_count = 0 THEN "returned" ELSE "running", result |-> None, time |-> clock, seen |-> disk, max_age_minutes |-> max_age_minutes, retry_count |-> retry_count, retry_interval |-> retry_interval, retry |-> 0, attempts |-> 0, sleeps |-> 0, raised |-> 0]
    /\ UNCHANGED <<disk, clock>>
    /\ UNCHANGED diffVars

\* a sleep after the last pass as well
NoFileSleepsAlways(p, now, d, raised) ==
    IF p.retry < p.retry_count - 1
    THEN [p EXCEPT !.retry = @ + 1, !.attempts = @ + 1, !.sleeps = @ + 1, !.raised = @ + raised, !.time = now, !.seen = d]
    ELSE [p EXCEPT !.status = "returned", !.result = None, !.attempts = @ + 1, !.sleeps = @ + 1, !.raised = @ + raised, !.time = now, !.seen = d]

\* 157-166 and 178-187: after a pass without a file, sleep and go on unless
\* it was the last one, which returns None
NoFileThisPass(p, now, d, raised) ==
    IF p.retry < p.retry_count - 1
    THEN [p EXCEPT !.retry = @ + 1, !.attempts = @ + 1, !.sleeps = @ + 1, !.raised = @ + raised, !.time = now, !.seen = d]
    ELSE [p EXCEPT !.status = "returned", !.result = None, !.attempts = @ + 1, !.raised = @ + raised, !.time = now, !.seen = d]

\* 168-176: the file is returned
FileThisPass(p, now, d, file) ==
    [p EXCEPT !.status = "returned", !.result = file, !.attempts = @ + 1, !.time = now, !.seen = d]

\* the clock after the pass: time.sleep(retry_interval) when the pass sleeps
ClockAfter(before, after, now) == IF after.sleeps > before.sleeps THEN now + before.retry_interval ELSE now

\* one pass of the loop of find_latest_csv_in_downloads (59-187)
FindLatestCsvAttempt ==
    /\ proc.op = "find_latest_csv_in_downloads" /\ proc.status = "running"
    /\ \E victim \in Victims(CsvCandidatesIn(disk, UniqueDownloadDirs(disk), MinTimestamp(clock, proc.max_age_minutes))) :
        \E r \in (IF victim = None THEN SearchCsvOnce(disk, clock, proc.max_age_minutes) ELSE {Raises}) :
            \E q \in {IF r \in {None, Raises} THEN NoFileThisPass(proc, clock, disk, IF r = Raises THEN 1 ELSE 0) ELSE FileThisPass(proc, clock, disk, r)} :
                /\ proc' = q
                /\ clock' = ClockAfter(proc, q, clock)
                /\ disk' = IF victim = None THEN disk ELSE Remove(disk, victim)
    /\ UNCHANGED diffVars

\* the browser finishes a download into the user's download directory while
\* find_latest_csv_in_downloads sleeps
Download ==
    /\ proc.op = "find_latest_csv_in_downloads" /\ proc.status = "running" /\ proc.sleeps > 0
    /\ \A e \in disk["home"].files : e.name # NameDownload
    /\ disk' = Put(disk, Path("home", NameDownload), clock - 1, 1)
    /\ UNCHANGED <<clock, proc>>
    /\ UNCHANGED diffVars

LocateInit ==
    /\ DiffIdle
    /\ disk \in LocateDisks
    /\ clock = Tm.start
    /\ proc = [op |-> "none", status |-> "idle"]

Extensions == {<<"c", "s", "v">>, <<".", "C", "S", "V">>}

Ages == {NoAge} \cup {Age(n) : n \in 0..MaxAgeMinutes}

LocateNext ==
    \/ \E directory \in {"configured", "home", "project"}, fold \in BOOLEAN : FindLatestFileCall(directory, DotCsv, fold)
    \/ \E directory \in {"configured", "home", "project"}, extension \in Extensions, max_age_minutes \in Ages : FindLatestFileByExtensionCall(directory, extension, max_age_minutes)
    \/ \E max_age_minutes \in 0..MaxAgeMinutes, retry_count \in 0..MaxRetryCount : FindLatestCsvStart(max_age_minutes, retry_count, Tm.retry_interval)
    \/ FindLatestCsvAttempt
    \/ Download

LocateSpec == LocateInit /\ [][LocateNext]_vars

\* the loop of find_latest_csv_in_downloads runs in the caller's thread and
\* time.sleep returns: a pass that can be made is made
LocateLive == LocateSpec /\ WF_vars(FindLatestCsvAttempt)

(***************************************************************************)
(* Vocabulary of the locate properties, over the directories proc.seen and *)
(* the time proc.time of the search that decided the call.                 *)
(***************************************************************************)
Returned(op) == proc.op = op /\ proc.status = "returned"

FoundFile(op) == Returned(op) /\ proc.result # None

\* the name ends in .csv, whatever the case of its letters
IsCsvName(name) == Len(name) >= 4 /\ StrLower(SubSeq(name, Len(name) - 3, Len(name))) = <<".", "c", "s", "v">>

\* the regular CSV files of every existing directory of the search list
\* that were modified within the last minutes before the search
AllNames == {NameA, NameB, NameText, NameFolder, NameDownload}

PooledCsv(minutes) ==
    {f \in [dir : Range(SearchList), name : AllNames] :
        /\ proc.seen[f.dir].exists
        /\ IsCsvName(f.name)
        /\ \E e \in proc.seen[f.dir].files : e.name = f.name /\ e.isfile /\ e.mtime >= proc.time - 60 * minutes}

SeenMTime(path) == GetMTime(proc.seen, path)

(***************************************************************************)
(* C14: find_latest_csv_in_downloads pools the candidates of all existing  *)
(* directories of its search list, not only of the first that exists: the  *)
(* file it returns is one of the CSV files within the recency window in    *)
(* any of these directories, and none of them has a greater modification   *)
(* time, whatever the priority of the directory that holds it.             *)
(***************************************************************************)
C14_PooledLatest ==
    FoundFile("find_latest_csv_in_downloads") =>
        /\ proc.result \in PooledCsv(proc.max_age_minutes)
        /\ \A q \in PooledCsv(proc.max_age_minutes) : SeenMTime(q) <= SeenMTime(proc.result)

\* the file returned is in the directory of the lowest priority while the
\* directory of the highest priority holds an older file within the window
C14_Witness ==
    /\ FoundFile("find_latest_csv_in_downloads")
    /\ proc.result.dir = "project"
    /\ \E q \in PooledCsv(proc.max_age_minutes) : q.dir = "configured" /\ SeenMTime(q) < SeenMTime(proc.result)

(***************************************************************************)
(* C15: with a window of N minutes, find_latest_csv_in_downloads and       *)
(* find_latest_file_by_extension never return a file whose modification    *)
(* time is earlier than the time of the search minus N minutes; when only  *)
(* older files exist the result is None.                                   *)
(***************************************************************************)
HasWindow ==
    \/ proc.op = "find_latest_csv_in_downloads"
    \/ proc.op = "find_latest_file_by_extension" /\ ~proc.max_age_minutes.none

WindowMinutes ==
    IF proc.op = "find_latest_csv_in_downloads" THEN proc.max_age_minutes
    ELSE proc.max_age_minutes.minutes

C15_Freshness ==
    (HasWindow /\ proc.status = "returned" /\ proc.result # None) =>
        SeenMTime(proc.result) >= proc.time - 60 * WindowMinutes

(***************************************************************************)
(* C16: find_latest_file, find_latest_file_by_extension and                *)
(* find_latest_csv_in_downloads return None and do not raise when the      *)
(* directory does not exist or when no file satisfies the predicate of the *)
(* search.                                                                 *)
(***************************************************************************)
LocateOps == {"find_latest_file", "find_latest_file_by_extension", "find_latest_csv_in_downloads"}

\* the call is over, with a value or with an exception
Ended == proc.op \in LocateOps /\ proc.status \in {"returned", "raised"}

DirectoryMissing ==
    IF proc.op = "find_latest_csv_in_downloads"
    THEN \A dir \in Range(SearchList) : ~proc.seen[dir].exists
    ELSE ~proc.seen[proc.directory].exists

\* the window find_latest_file_by_extension applies: none when
\* max_age_minutes is None or not positive
OutsideWindow(e) ==
    /\ ~proc.max_age_minutes.none
    /\ proc.max_age_minutes.minutes > 0
    /\ e.mtime < proc.time - 60 * proc.max_age_minutes.minutes

NoFileSatisfies ==
    CASE proc.op = "find_latest_file" ->
            \A e \in proc.seen[proc.directory].files : ~FnMatch(e.name, proc.suffix, proc.fold)
      [] proc.op = "find_latest_file_by_extension" ->
            \A e \in proc.seen[proc.directory].files :
                \/ ~e.isfile
                \/ ~EndsWith(StrLower(e.name), StrLower(WithDot(proc.extension)))
                \/ OutsideWindow(e)
      [] OTHER -> PooledCsv(proc.max_age_minutes) = {}

Tw == [start |-> 1000, timeout |-> 5, check_interval |-> 1, settle |-> 2, debounce |-> 1, grace |-> 300, maxSize |-> 2]

WatchList == <<"configured", "project", "home">>

WatchRank == [dir \in {"configured", "home", "project"} |-> CHOOSE i \in 1..3 : WatchList[i] = dir]

\* 206-207, 216-218, 245-247: download_dirs, the watched directories that exist
DownloadDirs(d) == SelectSeq(WatchList, LAMBDA dir : DirExists(d, dir))

\* glob.glob(os.path.join(download_dir, "*.csv")); the names modelled are in
\* lower case, which every platform's glob matches alike
GlobCsv(d, dir) == Glob(d, dir, DotCsv, FALSE)

\* 255-258: current_files, the snapshot
Snapshot(d, dirs) ==
    {[path |-> f, mtime |-> GetMTime(d, f)] : f \in UNION {GlobCsv(d, dir) : dir \in Range(dirs)}}

\* file_path not in current_files
NotInSnapshot(current_files, f) == \A c \in current_files : c.path # f

\* current_files.get(file_path, 0)
SnapshotMTime(current_files, f) ==
    IF NotInSnapshot(current_files, f) THEN 0
    ELSE (CHOOSE c \in current_files : c.path = f).mtime

\* os.path.getsize(path)
GetSize(d, path) == EntryOf(d, path).size

\* a file as old as in the snapshot passes as well
IsNewOrNotOlder(d, current_files, f) ==
    NotInSnapshot(current_files, f) \/ GetMTime(d, f) >= SnapshotMTime(current_files, f)

\* 272: the file is new or its modification time has advanced
IsNewOrAdvanced(d, current_files, f) ==
    NotInSnapshot(current_files, f) \/ GetMTime(d, f) > SnapshotMTime(current_files, f)

\* the check of line 272 alone
PassesFirstChecksAnySize(d, current_files, f) == IsNewOrAdvanced(d, current_files, f)

\* 272-274: the file goes on to the debounce
PassesFirstChecks(d, current_files, f) ==
    IsNewOrAdvanced(d, current_files, f) /\ GetSize(d, f) > 0

NoObservation == [new |-> FALSE, mtime |-> 0, snapshot |-> 0, size |-> 0, initial_size |-> 0, initial_time |-> 0, final_size |-> 0, final_time |-> 0]

\* what line 272-274 read of the file
FirstObservation(d, current_files, f) ==
    [NoObservation EXCEPT !.new = NotInSnapshot(current_files, f), !.mtime = GetMTime(d, f), !.snapshot = SnapshotMTime(current_files, f), !.size = GetSize(d, f)]

\* 203-258 and 263: the call, up to the start of the loop
WaitStart(timeout, check_interval) ==
    /\ proc.status = "idle"
    /\ \E dirs \in {DownloadDirs(disk)} :
        proc' = [op |-> "wait_for_new_csv_in_downloads",
                 status |-> IF dirs = <<>> THEN "returned" ELSE "running",
                 pc |-> IF dirs = <<>> THEN "no_dirs" ELSE "test",
                 result |-> None, timeout |-> timeout, check_interval |-> check_interval,
                 download_dirs |-> dirs, current_files |-> Snapshot(disk, dirs),
                 start_time |-> clock, dirs |-> <<>>, files |-> {}, file_path |-> None,
                 obs |-> NoObservation, polls |-> 0, rejected |-> {}, at_call |-> disk, seen |-> disk]
    /\ UNCHANGED <<disk, clock>>
    /\ UNCHANGED diffVars

\* 264-266: the loop condition, and the sleep that opens a poll
WaitTest ==
    /\ proc.op = "wait_for_new_csv_in_downloads" /\ proc.status = "running" /\ proc.pc = "test"
    /\ IF clock - proc.start_time < proc.timeout
       THEN /\ clock' = clock + proc.check_interval
            /\ proc' = [proc EXCEPT !.pc = "dirs", !.dirs = proc.download_dirs, !.polls = @ + 1]
       ELSE /\ clock' = clock
            /\ proc' = [proc EXCEPT !.pc = "fallback"]
    /\ UNCHANGED disk
    /\ UNCHANGED diffVars

\* 269-270: the next watched directory is listed
WaitNextDir ==
    /\ proc.op = "wait_for_new_csv_in_downloads" /\ proc.status = "running" /\ proc.pc = "dirs"
    /\ proc' = IF proc.dirs = <<>> THEN [proc EXCEPT !.pc = "test"]
               ELSE [proc EXCEPT !.pc = "files", !.dirs = Tail(@), !.files = GlobCsv(disk, Head(proc.dirs))]
    /\ UNCHANGED <<disk, clock>>
    /\ UNCHANGED diffVars

\* 270-276: the next listed file is examined; one that is new or advanced
\* and not empty is kept and the function sleeps before the debounce
WaitExamine ==
    /\ proc.op = "wait_for_new_csv_in_downloads" /\ proc.status = "running" /\ proc.pc = "files"
    /\ IF proc.files = {}
       THEN /\ proc' = [proc EXCEPT !.pc = "dirs"]
            /\ clock' = clock
       ELSE \E f \in proc.files :
               IF PassesFirstChecks(disk, proc.current_files, f)
               THEN /\ proc' = [proc EXCEPT !.pc = "initial_size", !.files = @ \ {f}, !.file_path = f, !.obs = FirstObservation(disk, proc.current_files, f)]
                    /\ clock' = clock + Tw.settle
               ELSE /\ proc' = [proc EXCEPT !.files = @ \ {f}, !.rejected = IF IsNewOrAdvanced(disk, proc.current_files, f) THEN @ \cup {f} ELSE @]
                    /\ clock' = clock
    /\ UNCHANGED disk
    /\ UNCHANGED diffVars

\* 279-280: initial_size is read, and the function sleeps a second
WaitInitialSize ==
    /\ proc.op = "wait_for_new_csv_in_downloads" /\ proc.status = "running" /\ proc.pc = "initial_size"
    /\ proc' = [proc EXCEPT !.pc = "final_size", !.obs.initial_size = GetSize(disk, proc.file_path), !.obs.initial_time = clock]
    /\ clock' = clock + Tw.debounce
    /\ UNCHANGED disk
    /\ UNCHANGED diffVars

\* a size that changed ends the polling
WaitFinalSizeGivesUp ==
    /\ proc.op = "wait_for_new_csv_in_downloads" /\ proc.status = "running" /\ proc.pc = "final_size"
    /\ \E size \in {GetSize(disk, proc.file_path)} :
        proc' = IF size = proc.obs.initial_size
                THEN [proc EXCEPT !.status = "returned", !.pc = "accepted", !.result = proc.file_path, !.obs.final_size = size, !.obs.final_time = clock, !.seen = disk]
                ELSE [proc EXCEPT !.pc = "fallback", !.obs.final_size = size, !.obs.final_time = clock, !.rejected = @ \cup {proc.file_path}]
    /\ UNCHANGED <<disk, clock>>
    /\ UNCHANGED diffVars

\* 281-283: the size is read again; the file is returned when it is the
\* same, and the loop over the listed files goes on when it is not
WaitFinalSize ==
    /\ proc.op = "wait_for_new_csv_in_downloads" /\ proc.status = "running" /\ proc.pc = "final_size"
    /\ \E size \in {GetSize(disk, proc.file_path)} :
        proc' = IF size = proc.obs.initial_size
                THEN [proc EXCEPT !.status = "returned", !.pc = "accepted", !.result = proc.file_path, !.obs.final_size = size, !.obs.final_time = clock, !.seen = disk]
                ELSE [proc EXCEPT !.pc = "files", !.obs.final_size = size, !.obs.final_time = clock, !.rejected = @ \cup {proc.file_path}]
    /\ UNCHANGED <<disk, clock>>
    /\ UNCHANGED diffVars

\* 293-298: the CSV files of the project's downloads directory
ProjectCsv(d) == IF DirExists(d, "project") THEN GlobCsv(d, "project") ELSE {}

\* 301-308: the CSV files of the other watched directories
OtherCsv(d, download_dirs) == UNION {GlobCsv(d, dir) : dir \in Range(download_dirs) \ {"project"}}

\* 296-298, 306-308: the first file of the greatest modification time,
\* which has to exceed latest_time = 0
LatestCsv(d, files) == LatestOrNone(d, {f \in files : GetMTime(d, f) > 0}, WatchRank)

\* 289-308: latest_csv; the other directories are read only when the
\* project's directory gave no file
FallbackChoice(d, download_dirs) ==
    IF LatestCsv(d, ProjectCsv(d)) # {None} THEN LatestCsv(d, ProjectCsv(d))
    ELSE LatestCsv(d, OtherCsv(d, download_dirs))

\* 310-314
WithinGrace(d, latest_csv, start_time) ==
    IF latest_csv # None /\ GetMTime(d, latest_csv) > start_time - Tw.grace THEN latest_csv ELSE None

\* 285-314: after the timeout
WaitFallback ==
    /\ proc.op = "wait_for_new_csv_in_downloads" /\ proc.status = "running" /\ proc.pc = "fallback"
    /\ \E latest_csv \in FallbackChoice(disk, proc.download_dirs) :
        proc' = [proc EXCEPT !.status = "returned", !.pc = "timed_out", !.result = WithinGrace(disk, latest_csv, proc.start_time), !.seen = disk]
    /\ UNCHANGED <<disk, clock>>
    /\ UNCHANGED diffVars

\* the browser starts or finishes a download in the user's directory,
\* or goes on writing it, while the function waits
BrowserCreate(size) ==
    /\ proc.op = "wait_for_new_csv_in_downloads" /\ proc.status = "running"
    /\ DirExists(disk, "home")
    /\ \A e \in disk["home"].files : e.name # NameDownload
    /\ disk' = Put(disk, Path("home", NameDownload), clock, size)
    /\ UNCHANGED <<clock, proc>>
    /\ UNCHANGED diffVars

BrowserWrite ==
    /\ proc.op = "wait_for_new_csv_in_downloads" /\ proc.status = "running"
    /\ \E e \in disk["home"].files :
        /\ e.name = NameDownload /\ e.size < Tw.maxSize
        /\ disk' = Put(disk, Path("home", NameDownload), clock, e.size + 1)
    /\ UNCHANGED <<clock, proc>>
    /\ UNCHANGED diffVars

\* the directories at the call: an old file in the project's directory, a
\* file in the configured one, a download in the user's, each or none
WaitProjectFiles == {{}} \cup {{Entry(NameA, TRUE, Tw.start - age, 1)} : age \in {Tw.grace + 1, Tw.grace, Tw.grace - 100}}

WaitHomeFiles == {{}} \cup {{Entry(NameDownload, TRUE, Tw.start - 10, size)} : size \in 0..1}

WaitConfiguredFiles == {{}, {Entry(NameA, TRUE, Tw.start - 100, 1)}}

WaitDisks ==
    {[dir \in {"configured", "home", "project"} |->
         CASE dir = "configured" -> c [] dir = "home" -> h [] OTHER -> p] :
        c \in UNION {Directories(f) : f \in WaitConfiguredFiles},
        h \in UNION {Directories(f) : f \in WaitHomeFiles},
        p \in UNION {Directories(f) : f \in WaitProjectFiles}}

WaitInit ==
    /\ DiffIdle
    /\ disk \in WaitDisks
    /\ clock = Tw.start
    /\ proc = [op |-> "none", status |-> "idle"]

WaitNext ==
    \/ \E timeout \in {0, Tw.timeout} : WaitStart(timeout, Tw.check_interval)
    \/ WaitTest
    \/ WaitNextDir
    \/ WaitExamine
    \/ WaitInitialSize
    \/ WaitFinalSize
    \/ WaitFallback
    \/ \E size \in 0..1 : BrowserCreate(size)
    \/ BrowserWrite

WaitSpec == WaitInit /\ [][WaitNext]_vars

\* a step of the function itself; no step waits for anything but the clock
WaitStep == WaitTest \/ WaitNextDir \/ WaitExamine \/ WaitInitialSize \/ WaitFinalSize \/ WaitFallback

\* the function, once called, keeps running; the browser owes nothing
WaitLive == WaitSpec /\ WF_vars(WaitStep)

(***************************************************************************)
(* Vocabulary of the wait properties.  proc.at_call is the directories as  *)
(* they were when the function was called, proc.obs what the function read *)
(* of the file it kept last.                                               *)
(***************************************************************************)
Accepted == proc.op = "wait_for_new_csv_in_downloads" /\ proc.status = "returned" /\ proc.pc = "accepted"

TimedOut == proc.op = "wait_for_new_csv_in_downloads" /\ proc.status = "returned" /\ proc.pc = "timed_out"

ExistedAtCall(f) == \E e \in proc.at_call[f.dir].files : e.name = f.name

MTimeAtCall(f) == (CHOOSE e \in proc.at_call[f.dir].files : e.name = f.name).mtime

(***************************************************************************)
(* C17: a path returned from the poll loop of wait_for_new_csv_in_downloads *)
(* satisfied all three conditions when it was accepted: it was absent when *)
(* the snapshot was taken or its modification time was greater than then;  *)
(* its size was greater than zero; and two reads of its size one second    *)
(* apart were equal.                                                       *)
(***************************************************************************)
C17_AcceptedPassedAllChecks ==
    Accepted =>
        /\ ~ExistedAtCall(proc.result) \/ proc.obs.mtime > MTimeAtCall(proc.result)
        /\ proc.obs.size > 0
        /\ proc.obs.initial_size = proc.obs.final_size
        /\ proc.obs.final_time - proc.obs.initial_time = Tw.debounce

\* a file of the snapshot is returned in a second or later poll, after the
\* browser wrote to it
C17_Witness ==
    /\ Accepted
    /\ ExistedAtCall(proc.result)
    /\ proc.obs.mtime > MTimeAtCall(proc.result)
    /\ proc.polls >= 2

(***************************************************************************)
(* C18: when the poll loop of wait_for_new_csv_in_downloads ends by        *)
(* timeout, the function returns the most recently modified CSV file among *)
(* the watched directories if that file was modified within the grace      *)
(* window, and None otherwise.  The window is taken as the code has it,    *)
(* Tw.grace seconds before the start of the wait.                          *)
(***************************************************************************)
WatchedCsv ==
    {f \in [dir : Range(proc.download_dirs), name : AllNames] :
        IsCsvName(f.name) /\ \E e \in proc.seen[f.dir].files : e.name = f.name}

MostRecentWatched == {f \in WatchedCsv : \A g \in WatchedCsv : SeenMTime(g) <= SeenMTime(f)}

C18_FallbackMostRecent ==
    TimedOut =>
        IF \E f \in MostRecentWatched : SeenMTime(f) > proc.start_time - Tw.grace
        THEN proc.result \in MostRecentWatched
        ELSE proc.result = None

(***************************************************************************)
(* move_file_to_data_dir, helpers.py 316-369.  The directories are the     *)
(* user's, where the source is, and data, the target.  An entry here has a *)
(* content.  clock is in seconds since 2026-10-25 00:00:00 UTC; proc.tz is *)
(* the time zone of the process, which datetime.now() (346) reads the      *)
(* local time in.  proc.seen and proc.after are the directories before and *)
(* after the last call, proc.previous the call before it.                  *)
(***************************************************************************)
Ta == [dst_end |-> 3600, summer |-> 7200, winter |-> 3600, day |-> 86400, hour |-> 3600, minute |-> 60, calls |-> 2]

\* the UTC offset of the zone at time t: Europe/Berlin leaves summer time
\* on 2026-10-25 at 01:00:00 UTC
UtcOffset(tz, t) ==
    IF tz = "Europe/Berlin" THEN (IF t < Ta.dst_end THEN Ta.summer ELSE Ta.winter) ELSE 0

DigitChars == <<"0", "1", "2", "3", "4", "5", "6", "7", "8", "9">>

\* %H, %M, %S: two digits
TwoDigits(n) == <<DigitChars[(n \div 10) + 1], DigitChars[(n % 10) + 1]>>

\* %Y%m%d of the day of local time, days counted from 2026-10-25
DateDigits(day) ==
    IF day = 0 THEN <<"2", "0", "2", "6", "1", "0", "2", "5">>
    ELSE <<"2", "0", "2", "6", "1", "0", "2", "6">>

\* 346: datetime.now().strftime("%Y%m%d_%H%M%S")
Timestamp(tz, t) ==
    LET local == t + UtcOffset(tz, t)
    IN DateDigits(local \div Ta.day) \o <<"_">>
         \o TwoDigits((local % Ta.day) \div Ta.hour)
         \o TwoDigits((local % Ta.hour) \div Ta.minute)
         \o TwoDigits(local % Ta.minute)

\* the index of the last dot of the name that is not its first character,
\* 0 without one
RECURSIVE LastDot(_, _)
LastDot(name, i) ==
    IF i <= 1 THEN 0
    ELSE IF name[i] = "." THEN i ELSE LastDot(name, i - 1)

\* 347: os.path.splitext(new_filename)
SplitExt(name) ==
    IF LastDot(name, Len(name)) = 0 THEN [filename |-> name, ext |-> <<>>]
    ELSE [filename |-> SubSeq(name, 1, LastDot(name, Len(name)) - 1), ext |-> SubSeq(name, LastDot(name, Len(name)), Len(name))]

\* 347-348: the name of the destination
DestName(new_filename, timestamp) ==
    SplitExt(new_filename).filename \o <<"_">> \o timestamp \o SplitExt(new_filename).ext

NameReport == <<"r", ".", "c", "s", "v">>

NameNoExt == <<"r", "e", "p">>

\* new_filename is None
NoName == <<>>

\* 342-343: the basename of the source unless a name is given
NewFilename(file_path, new_filename) == IF new_filename = NoName THEN file_path.name ELSE new_filename

ContentEntry(name, mtime, content) == [name |-> name, isfile |-> TRUE, mtime |-> mtime, size |-> Len(content), content |-> content]

\* the file with its name changed, as shutil.copy2 and shutil.move leave it
\* at the destination
Renamed(e, name) == [e EXCEPT !.name = name]

PutEntry(d, dir, e) ==
    [d EXCEPT ![dir] = [exists |-> TRUE, files |-> {x \in @.files : x.name # e.name} \cup {e}]]

HasEntry(d, path) == d[path.dir].exists /\ \E e \in d[path.dir].files : e.name = path.name

\* 337-338: os.makedirs(data_dir)
MakeDataDir(d) == IF d["data"].exists THEN d ELSE [d EXCEPT !["data"].exists = TRUE]

\* 357: shutil.copy2(file_path, dest_path)
Copy2(d, file_path, dest_path) == PutEntry(d, dest_path.dir, Renamed(EntryOf(d, file_path), dest_path.name))

\* 361: shutil.move(file_path, dest_path)
Move(d, file_path, dest_path) == Remove(Copy2(d, file_path, dest_path), file_path)

\* the original is kept whatever keep_original
CopyAlways(d, file_path, dest_path, keep_original) == Copy2(d, file_path, dest_path)

\* 355-361
CopyOrMove(d, file_path, dest_path, keep_original) ==
    IF keep_original THEN Copy2(d, file_path, dest_path) ELSE Move(d, file_path, dest_path)

\* the data directory is made before the source is looked for
MoveFileMakesDirFirst(d, tz, now, file_path, new_filename, keep_original, io_error) ==
    IF ~HasEntry(d, file_path) \/ io_error THEN [result |-> None, disk |-> MakeDataDir(d)]
    ELSE [result |-> Path("data", DestName(NewFilename(file_path, new_filename), Timestamp(tz, now))),
          disk |-> CopyOrMove(MakeDataDir(d), file_path, Path("data", DestName(NewFilename(file_path, new_filename), Timestamp(tz, now))), keep_original)]

\* the call as a whole: [result, disk].  io_error: the copy or the move
\* raises OSError, which 365-369 turn into None
MoveFileToDataDir(d, tz, now, file_path, new_filename, keep_original, io_error) ==
    IF ~HasEntry(d, file_path) THEN [result |-> None, disk |-> d]
    ELSE IF io_error THEN [result |-> None, disk |-> MakeDataDir(d)]
    ELSE [result |-> Path("data", DestName(NewFilename(file_path, new_filename), Timestamp(tz, now))),
          disk |-> CopyOrMove(MakeDataDir(d), file_path, Path("data", DestName(NewFilename(file_path, new_filename), Timestamp(tz, now))), keep_original)]

NoPrevious == [op |-> "none"]

\* what is kept of a call for the next one to be compared with
Summary(p) == [op |-> p.op, result |-> p.result, time |-> p.time, file_path |-> p.file_path, new_filename |-> p.new_filename, keep_original |-> p.keep_original, content |-> p.content]

ContentAt(d, path) == IF HasEntry(d, path) THEN EntryOf(d, path).content ELSE <<>>

MoveFileCall(file_path, new_filename, keep_original, io_error) ==
    /\ proc.status \in {"idle", "returned"}
    /\ proc.calls < Ta.calls
    /\ \E r \in {MoveFileToDataDir(disk, proc.tz, clock, file_path, new_filename, keep_original, io_error)} :
        /\ disk' = r.disk
        /\ proc' = [op |-> "move_file_to_data_dir", status |-> "returned", result |-> r.result,
                    tz |-> proc.tz, calls |-> proc.calls + 1, time |-> clock, seen |-> disk, after |-> r.disk,
                    file_path |-> file_path, new_filename |-> new_filename, keep_original |-> keep_original,
                    content |-> ContentAt(disk, file_path),
                    previous |-> IF proc.op = "none" THEN NoPrevious ELSE Summary(proc)]
    /\ UNCHANGED clock
    /\ UNCHANGED diffVars

\* time passes after a call, before the next one
Tick(seconds) ==
    /\ proc.op = "move_file_to_data_dir" /\ proc.calls < Ta.calls
    /\ clock = proc.time
    /\ clock' = clock + seconds
    /\ UNCHANGED <<disk, proc>>
    /\ UNCHANGED diffVars

\* the next download arrives under the name of the source
NextReport(content) ==
    /\ proc.op = "move_file_to_data_dir" /\ proc.calls < Ta.calls
    /\ ContentAt(disk, Path("home", NameReport)) # content
    /\ disk' = PutEntry(disk, "home", ContentEntry(NameReport, clock, content))
    /\ UNCHANGED <<clock, proc>>
    /\ UNCHANGED diffVars

Contents == {<<1>>, <<2, 2>>}

ArchiveSources == {{}} \cup {{ContentEntry(NameReport, 0, c)} : c \in Contents} \cup {{ContentEntry(NameNoExt, 0, <<1>>)}}

ArchiveDisks ==
    {[dir \in {"home", "data"} |-> IF dir = "home" THEN [exists |-> TRUE, files |-> f] ELSE [exists |-> e, files |-> {}]] :
        f \in ArchiveSources, e \in BOOLEAN}

ArchiveInit ==
    /\ DiffIdle
    /\ disk \in ArchiveDisks
    /\ clock \in {0, Ta.dst_end \div 2}
    /\ \E tz \in {"UTC", "Europe/Berlin"} : proc = [op |-> "none", status |-> "idle", tz |-> tz, calls |-> 0]

ArchiveNext ==
    \/ \E name \in {NameReport, NameNoExt}, new_filename \in {NoName, <<"x", ".", "t", "x", "t">>}, keep_original \in BOOLEAN, io_error \in BOOLEAN : MoveFileCall(Path("home", name), new_filename, keep_original, io_error)
    \/ \E seconds \in {1, Ta.hour} : Tick(seconds)
    \/ \E content \in Contents : NextReport(content)

ArchiveSpec == ArchiveInit /\ [][ArchiveNext]_vars

(***************************************************************************)
(* Vocabulary of the archive properties.                                   *)
(***************************************************************************)
Archived == proc.op = "move_file_to_data_dir" /\ proc.result # None

TwoArchived == Archived /\ proc.previous.op = "move_file_to_data_dir" /\ proc.previous.result # None

SameSourceName ==
    NewFilename(proc.file_path, proc.new_filename) = NewFilename(proc.previous.file_path, proc.previous.new_filename)

(***************************************************************************)
(* C19: the destination is named {stem}_{timestamp}{extension} with a      *)
(* timestamp of one-second granularity, so two calls of                    *)
(* move_file_to_data_dir for the same source name at least one second      *)
(* apart give two distinct destination paths, and with keep_original true  *)
(* in both, both destination files exist afterwards.                       *)
(***************************************************************************)
C19_DistinctDestinations ==
    (TwoArchived /\ SameSourceName /\ proc.time - proc.previous.time >= 1) =>
        /\ proc.result # proc.previous.result
        /\ (proc.keep_original /\ proc.previous.keep_original) =>
              HasEntry(proc.after, proc.result) /\ HasEntry(proc.after, proc.previous.result)

(***************************************************************************)
(* C20: after a successful move_file_to_data_dir call the destination file *)
(* exists with the content of the source and the data directory exists;    *)
(* with keep_original true the source is still there unchanged, with       *)
(* keep_original false the source path no longer exists.                   *)
(***************************************************************************)
C20_ArchiveEffect ==
    Archived =>
        /\ proc.after["data"].exists
        /\ HasEntry(proc.after, proc.result)
        /\ ContentAt(proc.after, proc.result) = ContentAt(proc.seen, proc.file_path)
        /\ IF proc.keep_original
           THEN HasEntry(proc.after, proc.file_path) /\ EntryOf(proc.after, proc.file_path) = EntryOf(proc.seen, proc.file_path)
           ELSE ~HasEntry(proc.after, proc.file_path)

\* a file with content has been moved into a data directory that did not
\* exist before the call
C20_Witness ==
    /\ Archived /\ ~proc.keep_original
    /\ ~proc.seen["data"].exists
    /\ ContentAt(proc.seen, proc.file_path) = <<2, 2>>
    /\ ContentAt(disk, proc.result) = <<2, 2>>

(***************************************************************************)
(* C21: when the source path does not exist, move_file_to_data_dir returns *)
(* None and creates neither the data directory nor any destination file.   *)
(***************************************************************************)
SourceMissing == proc.op = "move_file_to_data_dir" /\ ~HasEntry(proc.seen, proc.file_path)

C21_SourceMissingNoEffect == SourceMissing => proc.result = None /\ proc.after = proc.seen

\* the call was made for a missing source while there was no data
\* directory, and there is none after it
C21_Witness ==
    /\ SourceMissing /\ proc.result = None
    /\ ~proc.seen["data"].exists /\ ~proc.after["data"].exists /\ proc.after["data"].files = {}

(***************************************************************************)
(* C22: no operation lets an exception escape to its caller, whatever the  *)
(* directories hold and whenever the external process creates, grows or    *)
(* deletes a file between a listing and the reading of a modification time *)
(* or size: each call ends with a value.                                   *)
(***************************************************************************)
C22_NoExceptionEscapes == proc.status # "raised"

(***************************************************************************)
(* C23: the header row of the reference file is discarded for comparison:  *)
(* it is in the reference set only if the same tuple is also a data row of *)
(* the reference file, so a data row of the new file that equals only the  *)
(* header of the reference file is written as a difference.                *)
(***************************************************************************)
\* the positions of the data rows of new that equal the header of ref and
\* no data row of ref
EqualOnlyRefHeader(new, ref) ==
    {i \in 1..Len(new.rows) : new.rows[i] = ref.header /\ new.rows[i] \notin Range(ref.rows)}

C23_ReferenceHeaderNotCompared ==
    BothRead(NewSnapshot, RefSnapshot) =>
        \A i \in EqualOnlyRefHeader(NewSnapshot, RefSnapshot) :
            NewSnapshot.rows[i] \in Range(Tail(OutputRecords))

\* a new file with a data row equal to the header of the reference file,
\* which has data rows of its own, and that row is in the output
C23_Witness ==
    /\ last.outcome = "Diff"
    /\ BothRead(NewSnapshot, RefSnapshot)
    /\ RefSnapshot.rows # <<>>
    /\ EqualOnlyRefHeader(NewSnapshot, RefSnapshot) # {}
    /\ RefSnapshot.header \in Range(Tail(OutputRecords))

(***************************************************************************)
(* C24: find_latest_csv_in_downloads is bounded by retry_count: it makes   *)
(* at most retry_count search attempts and sleeps at most retry_count - 1  *)
(* times, never after the last attempt; it returns the file at the first   *)
(* attempt that finds one, and None after retry_count attempts that each   *)
(* found nothing or raised; and every call returns.                        *)
(***************************************************************************)
SearchingCsv == proc.op = "find_latest_csv_in_downloads" /\ proc.status = "running"

\* retry_count - 1 sleeps, none when retry_count is 0
MostSleeps == IF proc.retry_count >= 1 THEN proc.retry_count - 1 ELSE 0

BoundedByRetryCount ==
    proc.op = "find_latest_csv_in_downloads" =>
        /\ proc.attempts <= proc.retry_count
        /\ proc.sleeps <= MostSleeps
        /\ SearchingCsv => proc.sleeps = proc.attempts
        /\ FoundFile("find_latest_csv_in_downloads") => proc.sleeps = proc.attempts - 1
        /\ (Returned("find_latest_csv_in_downloads") /\ proc.result = None) =>
              proc.attempts = proc.retry_count /\ proc.sleeps = MostSleeps

C24_BoundedRetries ==
    /\ [](BoundedByRetryCount)
    /\ SearchingCsv ~> Returned("find_latest_csv_in_downloads")

\* None came back after two attempts and one sleep, one attempt having
\* raised and the other having found nothing
C24_Witness ==
    /\ Returned("find_latest_csv_in_downloads") /\ proc.result = None
    /\ proc.retry_count = 2 /\ proc.attempts = 2 /\ proc.sleeps = 1 /\ proc.raised = 1

(***************************************************************************)
(* C25: wait_for_new_csv_in_downloads takes its snapshot, path to          *)
(* modification time over all watched directories, once before the first   *)
(* poll and never updates it; a file of the snapshot whose modification    *)
(* time has not exceeded its snapshot value is never returned by the poll  *)
(* loop, however many polls are made.                                      *)
(***************************************************************************)
\* the CSV files of the watched directories as they were at the call, each
\* with its modification time
CsvAtCall ==
    UNION {{[path |-> Path(dir, e.name), mtime |-> e.mtime] :
               e \in {x \in proc.at_call[dir].files : IsCsvName(x.name)}} :
              dir \in Range(proc.download_dirs)}

C25_SnapshotTakenOnce ==
    proc.op = "wait_for_new_csv_in_downloads" =>
        /\ proc.current_files = CsvAtCall
        /\ (Accepted /\ ExistedAtCall(proc.result)) =>
              GetMTime(proc.seen, proc.result) > MTimeAtCall(proc.result)

\* the wait timed out after several polls although a file of the snapshot,
\* not empty and never written to, was in a watched directory all along
C25_Witness ==
    /\ TimedOut /\ proc.polls >= 2
    /\ \E c \in proc.current_files :
          /\ HasEntry(disk, c.path)
          /\ GetMTime(disk, c.path) = c.mtime
          /\ GetSize(disk, c.path) > 0

(***************************************************************************)
(* PortersOperations.execute_operations_flow, operations.py 1480-1530,     *)
(* with execute_common_history_flow (1446-1478), export_history_data       *)
(* (427-1269) and _download_exported_csv (1271-1415).  The flow is a       *)
(* process: proc.pc is the step to run next, proc.started the steps        *)
(* started so far and proc.outcomes what each returned: "True", "False",   *)
(* or "Raises" when an exception left the step.  What a step does in the   *)
(* browser is outside the model; its outcome is any of the three.          *)
(***************************************************************************)
Fl == [max_retries |-> 3, retry_interval |-> 45, link_wait |-> 10, dialog_blocks |-> 9]

\* 1461, 1466, 1503, 1508, 1513, 1518: the steps in the order of the calls,
\* the first two inside execute_common_history_flow
FlowSteps == <<"click_other_operations_button", "click_history_menu", "click_all_history", "select_all_correspondence", "click_show_more_repeatedly", "export_history_data">>

StepIndex(step) == CHOOSE i \in 1..Len(FlowSteps) : FlowSteps[i] = step

\* every False stops the flow, that of select_all_correspondence too
ContinuesOnTrueOnly(step, outcome) == outcome = "True"

\* 1461-1468, 1498-1520: the flow goes on after a step that returned True,
\* and after select_all_correspondence returned False (1508-1510)
Continues(step, outcome) ==
    outcome = "True" \/ (step = "select_all_correspondence" /\ outcome = "False")

\* the step has ended with outcome: the next step, or the return of the
\* flow (1500, 1505, 1515, 1520, 1523, 1530)
StepEnds(p, step, outcome) ==
    IF Continues(step, outcome) /\ StepIndex(step) < Len(FlowSteps)
    THEN [p EXCEPT !.pc = FlowSteps[StepIndex(step) + 1], !.outcomes = Append(@, outcome)]
    ELSE [p EXCEPT !.status = "returned", !.pc = "done", !.outcomes = Append(@, outcome), !.result = Continues(step, outcome)]

\* the flow is returning a value that depends on the file downloaded
ExportResultNeedsFile(csv_path) == IF csv_path = None THEN "False" ELSE "True"

\* 1253, 1262: the value of _download_exported_csv() is dropped and
\* export_history_data returns True
ExportResult(csv_path) == "True"

\* 1494-1495
FlowStart ==
    /\ proc.status = "idle"
    /\ proc' = [op |-> "execute_operations_flow", status |-> "running", pc |-> FlowSteps[1],
                started |-> <<>>, outcomes |-> <<>>, result |-> FALSE,
                dialog |-> "not_reached", block |-> 0, attempt |-> 0, finds |-> 0, download |-> "not_called", csv_path |-> None]
    /\ UNCHANGED <<disk, clock>>
    /\ UNCHANGED diffVars

\* one of the five steps before the export is run (1461-1515).  A step
\* catches what its body raises and returns False after
\* self.browser.save_screenshot, whose code is not in this repository: an
\* exception leaves a step only from that call.  The handlers of the flow
\* (1473-1478, 1525-1530) make the same call before they return False:
\* handled says whether it returned there, and the exception leaves the flow
\* when it did not.
RunStep(outcome, handled) ==
    /\ proc.op = "execute_operations_flow" /\ proc.status = "running"
    /\ proc.pc \in Range(FlowSteps) \ {"export_history_data"}
    /\ proc' = IF outcome = "Raises" /\ ~handled
               THEN [proc EXCEPT !.started = Append(@, proc.pc), !.outcomes = Append(@, outcome), !.status = "raised", !.pc = "done"]
               ELSE StepEnds([proc EXCEPT !.started = Append(@, proc.pc)], proc.pc, outcome)
    /\ UNCHANGED <<disk, clock>>
    /\ UNCHANGED diffVars

\* export_history_data up to the download (434-1250), one block of the
\* dialog at a time: a block that fails returns False (452, 528, 627, 756,
\* 940, 1139, 1182, 1222, 1258), the last one that succeeds calls
\* _download_exported_csv (1253)
ExportDialog(ok) ==
    /\ proc.op = "execute_operations_flow" /\ proc.status = "running" /\ proc.pc = "export_history_data"
    /\ \E p \in {IF proc.block = 0 THEN [proc EXCEPT !.started = Append(@, proc.pc), !.block = 1] ELSE [proc EXCEPT !.block = @ + 1]} :
         proc' = IF ~ok THEN StepEnds([p EXCEPT !.dialog = "failed"], "export_history_data", "False")
                 ELSE IF p.block < Fl.dialog_blocks THEN p
                 ELSE [p EXCEPT !.dialog = "ok", !.pc = "open_result_list", !.download = "called"]
    /\ UNCHANGED <<disk, clock>>
    /\ UNCHANGED diffVars

\* _download_exported_csv has returned csv_path, and export_history_data
\* returns
DownloadReturns(p, csv_path) ==
    StepEnds([p EXCEPT !.download = "returned", !.csv_path = csv_path], "export_history_data", ExportResult(csv_path))

\* 1283-1346: one pass of the loop that opens the list of export results;
\* a pass that fails sleeps retry_interval before the next one (1340-1343)
OpenResultList(found) ==
    /\ proc.op = "execute_operations_flow" /\ proc.status = "running" /\ proc.pc = "open_result_list"
    /\ proc' = IF found THEN [proc EXCEPT !.pc = "download_csv", !.attempt = 0]
               ELSE IF proc.attempt < Fl.max_retries - 1 THEN [proc EXCEPT !.attempt = @ + 1]
               ELSE DownloadReturns(proc, None)
    /\ clock' = IF ~found /\ proc.attempt < Fl.max_retries - 1 THEN clock + Fl.retry_interval ELSE clock
    /\ UNCHANGED disk
    /\ UNCHANGED diffVars

\* 1350-1415: one pass of the loop that clicks the download link, sleeps
\* (1388) and looks for the file; csv_path and latest_csv are what the two
\* calls of find_latest_csv_in_downloads (1391, 1402) return
DownloadCsv(clicked, csv_path, latest_csv) ==
    /\ proc.op = "execute_operations_flow" /\ proc.status = "running" /\ proc.pc = "download_csv"
    /\ proc' = IF clicked /\ csv_path # None THEN DownloadReturns([proc EXCEPT !.finds = @ + 1], csv_path)
               ELSE IF proc.attempt < Fl.max_retries - 1
               THEN [proc EXCEPT !.attempt = @ + 1, !.finds = IF clicked THEN @ + 1 ELSE @]
               ELSE IF clicked THEN DownloadReturns([proc EXCEPT !.finds = @ + 2], latest_csv)
               ELSE DownloadReturns(proc, None)
    /\ clock' = clock + (IF clicked THEN Fl.link_wait ELSE 0)
                      + (IF ~(clicked /\ csv_path # None) /\ proc.attempt < Fl.max_retries - 1 THEN Fl.retry_interval ELSE 0)
    /\ UNCHANGED disk
    /\ UNCHANGED diffVars

FlowInit ==
    /\ DiffIdle
    /\ HostIdle

Outcomes == {"True", "False", "Raises"}

\* what find_latest_csv_in_downloads may return
FoundCsv == {None, Path("home", <<"n", ".", "c", "s", "v">>)}

FlowNext ==
    \/ FlowStart
    \/ \E outcome \in Outcomes, handled \in BOOLEAN : RunStep(outcome, handled)
    \/ \E ok \in BOOLEAN : ExportDialog(ok)
    \/ \E found \in BOOLEAN : OpenResultList(found)
    \/ \E clicked \in BOOLEAN, csv_path \in FoundCsv, latest_csv \in FoundCsv : DownloadCsv(clicked, csv_path, latest_csv)

FlowSpec == FlowInit /\ [][FlowNext]_vars

(***************************************************************************)
(* C26: execute_operations_flow starts its steps in one fixed order        *)
(* (click_other_operations_button and click_history_menu of the common     *)
(* history flow, click_all_history, select_all_correspondence,             *)
(* click_show_more_repeatedly, export_history_data).  When a step other    *)
(* than select_all_correspondence has returned False, the flow has         *)
(* returned False and that step is the last one started.  When             *)
(* select_all_correspondence has returned False the flow goes on with      *)
(* click_show_more_repeatedly.  The flow returns True only after           *)
(* export_history_data was started and returned True.                      *)
(***************************************************************************)
InFlow == proc.op = "execute_operations_flow"

FlowReturned(value) == InFlow /\ proc.status = "returned" /\ proc.result = value

ReturnedFalse(i) == i \in 1..Len(proc.outcomes) /\ proc.outcomes[i] = "False"

Tolerated == StepIndex("select_all_correspondence")

C26_FlowOrder ==
    InFlow =>
        /\ proc.started = SubSeq(FlowSteps, 1, Len(proc.started))
        /\ Len(proc.outcomes) <= Len(proc.started)
        /\ \A i \in 1..Len(FlowSteps) :
             (ReturnedFalse(i) /\ i # Tolerated) => FlowReturned(FALSE) /\ Len(proc.started) = i
        /\ ReturnedFalse(Tolerated) =>
             \/ proc.status = "running" /\ proc.pc = "click_show_more_repeatedly"
             \/ Len(proc.started) > Tolerated
        /\ FlowReturned(TRUE) =>
             /\ proc.started = FlowSteps
             /\ Len(proc.outcomes) = Len(FlowSteps)
             /\ proc.outcomes[Len(FlowSteps)] = "True"

C26_Witness ==
    /\ FlowReturned(TRUE)
    /\ ReturnedFalse(Tolerated)
    /\ proc.started = FlowSteps

(***************************************************************************)
(* C29: when every block of the dialog of export_history_data succeeded    *)
(* and _download_exported_csv has returned, export_history_data has        *)
(* returned True and so has execute_operations_flow, whatever the download *)
(* returned: also when it returned None after all its retries.             *)
(***************************************************************************)
DownloadReturned == InFlow /\ proc.dialog = "ok" /\ proc.download = "returned"

C29_ExportIgnoresDownload ==
    DownloadReturned =>
        /\ Len(proc.outcomes) = Len(FlowSteps)
        /\ proc.outcomes[Len(FlowSteps)] = "True"
        /\ FlowReturned(TRUE)

C29_Witness ==
    /\ DownloadReturned
    /\ proc.csv_path = None
    /\ proc.attempt = Fl.max_retries - 1
    /\ proc.finds = Fl.max_retries + 1
    /\ FlowReturned(TRUE)

(***************************************************************************)
(* C27: when extract_csv_differences has returned False because the new    *)
(* file is missing, the reference file is empty or the new file is empty,  *)
(* the files at the three paths of the call hold what they held before it  *)
(* (the output path holds no file if it held none, and its old content if  *)
(* it held one) and the directory of the output path exists only if it     *)
(* existed before.                                                         *)
(***************************************************************************)
EarlyFalse == last.called /\ last.outcome \in {"InputMissing", "EmptyReference", "EmptyInput"}

C27_EarlyFalseLeavesFiles ==
    EarlyFalse =>
        /\ ~last.result
        /\ OutputFile = last.outBefore
        /\ fs[paths[1]] = last.newBefore
        /\ fs[paths[2]] = last.refBefore
        /\ outDirExists = last.dirBefore

\* an empty new file beside a reference file, and an output file written
\* earlier that keeps its content
C27_Witness ==
    /\ EarlyFalse
    /\ last.outcome = "EmptyInput"
    /\ DistinctPaths
    /\ last.outBefore.exists /\ last.outBefore.bytes # <<>>
    /\ OutputFile = last.outBefore

(***************************************************************************)
(* C28: when the reference file does not exist and the new file exists and *)
(* has no byte, the call does not fail with EmptyInput: it returns True    *)
(* and the output path holds an empty file.  (Stated for an output path    *)
(* that is neither input path.)                                            *)
(***************************************************************************)
EmptyNewAlone ==
    /\ last.called /\ DistinctPaths
    /\ ~last.refBefore.exists
    /\ last.newBefore.exists /\ last.newBefore.bytes = <<>>

C28_EmptyNewIsCopied ==
    EmptyNewAlone =>
        /\ last.outcome # "EmptyInput"
        /\ last.result
        /\ OutputFile.exists /\ OutputFile.bytes = <<>>

(***************************************************************************)
(* C30: eventual detection in wait_for_new_csv_in_downloads.  A file that  *)
(* a poll rejected, for a size of zero or a size that changed between the  *)
(* two reads, is still new or advanced against the snapshot afterwards,    *)
(* and the polling ends only by a return or by the timeout.  And whenever  *)
(* a poll is about to start before the timeout has elapsed while a watched *)
(* directory holds a CSV that is new or advanced against the snapshot, not *)
(* empty and no longer written, the function returns a path, not None.     *)
(***************************************************************************)
Waiting == proc.op = "wait_for_new_csv_in_downloads" /\ proc.status = "running"

WatchedNow == UNION {GlobCsv(disk, dir) : dir \in Range(proc.download_dirs)}

\* the browser has not finished the file
StillWritten(f) == f = Path("home", NameDownload) /\ GetSize(disk, f) < Tw.maxSize

StableNewCsv ==
    {f \in WatchedNow : IsNewOrAdvanced(disk, proc.current_files, f) /\ GetSize(disk, f) > 0 /\ ~StillWritten(f)}

PollStarts ==
    /\ Waiting /\ proc.pc = "test"
    /\ clock - proc.start_time < proc.timeout
    /\ StableNewCsv # {}

StaysEligible ==
    proc.op = "wait_for_new_csv_in_downloads" =>
        /\ \A f \in proc.rejected : IsNewOrAdvanced(disk, proc.current_files, f)
        /\ proc.pc \in {"fallback", "timed_out"} => clock - proc.start_time >= proc.timeout

C30_EventualDetection ==
    /\ [](StaysEligible)
    /\ PollStarts ~> (Returned("wait_for_new_csv_in_downloads") /\ proc.result # None)

\* a file rejected in one poll and returned by a later one
C30_Witness ==
    /\ Accepted
    /\ proc.polls >= 2
    /\ proc.result \in proc.rejected
    /\ proc.result \in StableNewCsv

====
